---- MODULE Spec2Model ----
(***************************************************************************)
(* Model of the knowledge-graph store (the db module concatenated into     *)
(* src/src/app.ts, lines 353-658), of the tool surface that calls it       *)
(* (src/src/index.ts, MyMCP.registerTools) and of the access-control       *)
(* functions of AuthService (src/src/user-service.ts).                     *)
(*                                                                         *)
(* Strings are sequences of one-character strings, so that the ILIKE       *)
(* pattern matching of searchNodes is computed and not assumed.            *)
(* A table is a bag (multiset) of rows: SQL gives a SELECT without         *)
(* ORDER BY no row order, and the relation and entity_observation tables   *)
(* have no key, so equal rows can be stored more than once.  The           *)
(* created_at column of entity is left out: no operation reads it.         *)
(***************************************************************************)
EXTENDS Integers, Sequences, FiniteSets, Bags, TLC

VARIABLES entity, relation, entity_observation, res, access, deleted, fault,
          OAUTH_KV, calls, now, creates, agent, http

vars == <<entity, relation, entity_observation, res, access, deleted, fault,
          OAUTH_KV, calls, now, creates, agent, http>>

\* The variables of the graph tools and of the access-control calls.
graphVars == <<entity, relation, entity_observation, res, access, deleted, fault>>

\* The variables of identity: the key-value store OAUTH_KV, the
\* createUserContext calls in progress, and the clock new Date() reads.
identityVars == <<OAUTH_KV, calls, now>>

\* The variables of requests: the createEntities calls that run side by side,
\* the Durable Object instance of UserMcpAgent, and the last answer of the
\* routes /approve and /register.
requestVars == <<creates, agent, http>>

\* deleted is a history variable: the (owner, name) pairs whose entity row a
\* delete_entities call removed while observations were stored under the name,
\* for as long as such observations are stored and no create_entities call has
\* stored the entity again.  No operation reads it.
\*
\* fault is the environment of the next tool call: 0 when the database answers
\* every statement, k when it fails the k-th statement the call issues (a
\* dropped connection, a timeout), which execute() raises.

-----------------------------------------------------------------------------
(* Bounds of the model. *)

\* Rows the three tables hold together.
MaxRows == 3
\* Length of every list argument of a tool call.
MaxBatch == 2
\* The statements of a call among which the database may fail one.
MaxFault == 2

-----------------------------------------------------------------------------
(* Strings. *)

\* String.prototype.toLowerCase / the lower-casing ILIKE applies, per character.
LowerChar(c) ==
    CASE c = "A" -> "a"
      [] c = "B" -> "b"
      [] c = "T" -> "t"
      [] OTHER -> c

Lower(s) == [i \in 1..Len(s) |-> LowerChar(s[i])]

Range(s) == {s[i] : i \in 1..Len(s)}

\* Suffix of s from position i on.
Drop(s, i) == SubSeq(s, i, Len(s))

\* Sequences over S of length at most n.
SeqsUpTo(S, n) == UNION {[1..k -> S] : k \in 0..n}

-----------------------------------------------------------------------------
(* Bags. *)

BagFilter(B, P(_)) == [e \in {x \in DOMAIN B : P(x)} |-> B[e]]

BagAdd(B, e) == B (+) SetToBag({e})

\* The elements of a list as a bag.
RECURSIVE SeqToBag(_)
SeqToBag(s) == IF s = <<>> THEN EmptyBag ELSE BagAdd(SeqToBag(Tail(s)), Head(s))

\* The bag of F(e) for the rows e of B, each as often as its rows occur.
BagMap(B, F(_)) == BagOfAll(F, B)

-----------------------------------------------------------------------------
(* The values the tool calls are made with. *)

\* Authenticated users (props.user): two users of one tenant.
UserIds == {"u1", "u2"}

TenantIds == {"t1"}

Names == {<<"A", "b">>, <<"b">>}

EntityTypes == {<<"T">>, <<"a">>}

ObservationTexts == {<<"a", "\\">>, <<"B">>}

RelationTypes == {<<"k">>}

Queries == {<<>>, <<"a">>, <<"B">>, <<"_">>, <<"\\">>}

\* The values of the runs that follow one owner's graph in detail.
OwnerRun ==
    [users |-> {"u1"},
     entityTypes |-> EntityTypes,
     texts |-> ObservationTexts,
     relations |-> [from : Names, to : {<<"b">>}, relationType : RelationTypes],
     queries |-> Queries]

\* The values of the runs that follow two users of one tenant.
TenantRun ==
    [users |-> UserIds,
     entityTypes |-> {<<"T">>},
     texts |-> {<<"B">>},
     relations |-> [from : {<<"A", "b">>}, to : {<<"b">>},
                    relationType : RelationTypes],
     queries |-> {<<>>, <<"b">>}]

\* The values of the runs in which the database may fail a statement.
FaultRun ==
    [users |-> {"u1"},
     entityTypes |-> {<<"T">>},
     texts |-> {<<"B">>},
     relations |-> [from : {<<"A", "b">>}, to : {<<"b">>},
                    relationType : RelationTypes],
     queries |-> {<<>>}]

\* The values of the runs that follow the relations of one owner.
RelationRun ==
    [users |-> {"u1"},
     entityTypes |-> {<<"T">>},
     texts |-> {<<"B">>},
     relations |-> [from : Names, to : Names,
                    relationType : {<<"k">>, <<"T">>}],
     queries |-> {<<>>}]

\* The argument of create_entities: a list of {name, entityType, observations},
\* an entity listing at most one observation.
EntityInputs(run) ==
    [name : Names, entityType : run.entityTypes,
     observations : SeqsUpTo(run.texts, 1)]

-----------------------------------------------------------------------------
(* The relational store: three tables (migration 20250721T045948368Z). *)

\* The database as a call finds it: the three tables, the number of statements
\* the call has issued, whether one of them raised, and the statement the
\* database fails (0: none).
DB == [entity |-> entity, relation |-> relation,
       entity_observation |-> entity_observation,
       issued |-> 0, raised |-> FALSE, failAt |-> fault]

EmptyDB == [entity |-> EmptyBag, relation |-> EmptyBag,
            entity_observation |-> EmptyBag,
            issued |-> 0, raised |-> FALSE, failAt |-> 0]

\* await ...execute(): the statement is issued.
Issued(db) == [db EXCEPT !.issued = @ + 1]

\* Whether the database fails the statement the call issues next.
Raises(db) == db.issued + 1 = db.failAt

\* Whether the database fails one of the next n statements.
SelectsRaise(db, n) == db.failAt \in (db.issued + 1)..(db.issued + n)

\* The statement is issued and execute() raises.
Raised(db) == [Issued(db) EXCEPT !.raised = TRUE]

RowCount(db) ==
    BagCardinality(db.entity) + BagCardinality(db.relation)
        + BagCardinality(db.entity_observation)

\* A table without the primary key: no insert raises.
EntityKeyNeverTaken(db, row) == FALSE

\* addPrimaryKeyConstraint('entity_pkey', ['user_id', 'name']): the insert of a
\* row whose key is already in the table raises a unique violation.
EntityKeyTaken(db, row) ==
    \E r \in BagToSet(db.entity) : r.user_id = row.user_id /\ r.name = row.name

\* A select or delete that leaves the user_id filter out.
OwnedByAnyone(r, user_id) == TRUE

\* .where('user_id', '=', user_id): the filter every select and delete carries.
OwnedBy(r, user_id) == r.user_id = user_id

Ok == [success |-> TRUE]

Failure(e) == [success |-> FALSE, error |-> e]

\* for (const observation of observations) insertInto('entity_observation')
RECURSIVE createEntityObservations(_, _, _, _)
createEntityObservations(db, user_id, entity_name, observations) ==
    IF observations = <<>>
    THEN [db |-> db, result |-> Ok]
    ELSE IF Raises(db)
    THEN [db |-> Raised(db), result |-> Failure("connection")]
    ELSE createEntityObservations(
             [Issued(db) EXCEPT !.entity_observation =
                 BagAdd(@, [user_id |-> user_id, entity_name |-> entity_name,
                            observation |-> Head(observations)])],
             user_id, entity_name, Tail(observations))

\* A batch in one transaction: a failure undoes what the batch inserted.
RECURSIVE createEntitiesAtomic(_, _, _)
createEntitiesAtomic(db, userId, entities) ==
    IF entities = <<>>
    THEN [db |-> db, result |-> Ok]
    ELSE LET e == Head(entities)
             row == [user_id |-> userId, name |-> e.name, type |-> e.entityType]
             rest == createEntitiesAtomic(
                         createEntityObservations(
                             [Issued(db) EXCEPT !.entity = BagAdd(@, row)],
                             userId, e.name, e.observations).db,
                         userId, Tail(entities))
         IN  IF Raises(db) \/ EntityKeyTaken(db, row)
             THEN [db |-> Raised(db), result |-> Failure("entity_pkey")]
             ELSE IF rest.result.success THEN rest
             ELSE [db |-> Raised(db), result |-> rest.result]

\* for (const entity of entities) { insertInto('entity'); createEntityObservations }
\* An insert that raises leaves the loop: the catch returns the failure, and
\* what the earlier iterations inserted stays.  What createEntityObservations
\* returns is not looked at: it has caught its own failure.
RECURSIVE createEntities(_, _, _)
createEntities(db, userId, entities) ==
    IF entities = <<>>
    THEN [db |-> db, result |-> Ok]
    ELSE LET e == Head(entities)
             row == [user_id |-> userId, name |-> e.name, type |-> e.entityType]
         IN  IF Raises(db)
             THEN [db |-> Raised(db), result |-> Failure("connection")]
             ELSE IF EntityKeyTaken(db, row)
             THEN [db |-> Raised(db), result |-> Failure("entity_pkey")]
             ELSE createEntities(
                      createEntityObservations(
                          [Issued(db) EXCEPT !.entity = BagAdd(@, row)],
                          userId, e.name, e.observations).db,
                      userId, Tail(entities))

\* An insert that leaves a relation already stored alone.
RECURSIVE createRelationsDistinct(_, _, _)
createRelationsDistinct(db, user_id, relations) ==
    IF relations = <<>>
    THEN [db |-> db, result |-> Ok]
    ELSE LET row == [user_id |-> user_id, from |-> Head(relations).from,
                     to |-> Head(relations).to,
                     type |-> Head(relations).relationType]
         IN  createRelationsDistinct(
                 IF BagIn(row, db.relation) THEN Issued(db)
                 ELSE [Issued(db) EXCEPT !.relation = BagAdd(@, row)],
                 user_id, Tail(relations))

\* for (const relation of relations) insertInto('relation')
RECURSIVE createRelations(_, _, _)
createRelations(db, user_id, relations) ==
    IF relations = <<>>
    THEN [db |-> db, result |-> Ok]
    ELSE IF Raises(db)
    THEN [db |-> Raised(db), result |-> Failure("connection")]
    ELSE createRelations(
             [Issued(db) EXCEPT !.relation =
                 BagAdd(@, [user_id |-> user_id, from |-> Head(relations).from,
                            to |-> Head(relations).to,
                            type |-> Head(relations).relationType])],
             user_id, Tail(relations))

\* An add_observations that asks for the entity to exist.
add_observationsToEntity(db, user_id, entity_name, observations) ==
    IF \E r \in BagToSet(db.entity) : r.user_id = user_id /\ r.name = entity_name
    THEN LET r == createEntityObservations(db, user_id, entity_name, observations)
         IN  [db |-> r.db, result |-> [success |-> TRUE, result |-> r.result]]
    ELSE [db |-> db, result |-> Failure("no such entity")]

\* return { success: true, result } with result what createEntityObservations returned
add_observations(db, user_id, entity_name, observations) ==
    LET r == createEntityObservations(db, user_id, entity_name, observations)
    IN  [db |-> r.db, result |-> [success |-> TRUE, result |-> r.result]]

\* A delete that cascades to the relations and observations of the names.
RECURSIVE deleteEntitiesCascade(_, _, _)
deleteEntitiesCascade(db, user_id, entity_names) ==
    IF entity_names = <<>>
    THEN [db |-> db, result |-> [success |-> TRUE]]
    ELSE LET n == Head(entity_names)
         IN  deleteEntitiesCascade(
                 [Issued(db) EXCEPT
                  !.entity = BagFilter(@,
                      LAMBDA r : ~(r.user_id = user_id /\ r.name = n)),
                  !.relation = BagFilter(@,
                      LAMBDA r : ~(r.user_id = user_id /\ (r.from = n \/ r.to = n))),
                  !.entity_observation = BagFilter(@,
                      LAMBDA r : ~(r.user_id = user_id /\ r.entity_name = n))],
                 user_id, Tail(entity_names))

\* for (const entity_name of entity_names) deleteFrom('entity') where user_id, name
RECURSIVE deleteEntities(_, _, _)
deleteEntities(db, user_id, entity_names) ==
    IF entity_names = <<>>
    THEN [db |-> db, result |-> Ok]
    ELSE IF Raises(db)
    THEN [db |-> Raised(db), result |-> Failure("connection")]
    ELSE deleteEntities(
             [Issued(db) EXCEPT !.entity =
                 BagFilter(@, LAMBDA r : ~(OwnedBy(r, user_id)
                                           /\ r.name = Head(entity_names)))],
             user_id, Tail(entity_names))

\* A delete that matches a relation by its ends and not by its type.
RECURSIVE deleteRelationsByEnds(_, _, _)
deleteRelationsByEnds(db, user_id, relations) ==
    IF relations = <<>>
    THEN [db |-> db, result |-> Ok]
    ELSE deleteRelationsByEnds(
             [Issued(db) EXCEPT !.relation =
                 BagFilter(@, LAMBDA r : ~(r.user_id = user_id
                                           /\ r.from = Head(relations).from
                                           /\ r.to = Head(relations).to))],
             user_id, Tail(relations))

\* for (const relation of relations) deleteFrom('relation') where user_id, from, to, type
RECURSIVE deleteRelations(_, _, _)
deleteRelations(db, user_id, relations) ==
    IF relations = <<>>
    THEN [db |-> db, result |-> Ok]
    ELSE IF Raises(db)
    THEN [db |-> Raised(db), result |-> Failure("connection")]
    ELSE deleteRelations(
             [Issued(db) EXCEPT !.relation =
                 BagFilter(@, LAMBDA r : ~(OwnedBy(r, user_id)
                                           /\ r.from = Head(relations).from
                                           /\ r.to = Head(relations).to
                                           /\ r.type = Head(relations).relationType))],
             user_id, Tail(relations))

\* A delete that removes one row for each listed text.
RECURSIVE deleteObservationOnce(_, _, _, _)
deleteObservationOnce(db, user_id, entity_name, observations) ==
    IF observations = <<>>
    THEN [db |-> db, result |-> Ok]
    ELSE LET row == [user_id |-> user_id, entity_name |-> entity_name,
                     observation |-> Head(observations)]
         IN  deleteObservationOnce(
                 IF BagIn(row, db.entity_observation)
                 THEN [Issued(db) EXCEPT !.entity_observation = @ (-) SetToBag({row})]
                 ELSE Issued(db),
                 user_id, entity_name, Tail(observations))

\* for (const observation of observations) deleteFrom('entity_observation')
\* where user_id, entity_name, observation
RECURSIVE deleteObservations(_, _, _, _)
deleteObservations(db, user_id, entity_name, observations) ==
    IF observations = <<>>
    THEN [db |-> db, result |-> Ok]
    ELSE IF Raises(db)
    THEN [db |-> Raised(db), result |-> Failure("connection")]
    ELSE deleteObservations(
             [Issued(db) EXCEPT !.entity_observation =
                 BagFilter(@, LAMBDA r : ~(OwnedBy(r, user_id)
                                           /\ r.entity_name = entity_name
                                           /\ r.observation = Head(observations)))],
             user_id, entity_name, Tail(observations))

-----------------------------------------------------------------------------
(* ILIKE, as PostgreSQL matches it (MatchText): in the pattern '%' stands for  *)
(* any run of characters, '_' for any one character, and a backslash takes     *)
(* the character after it literally; both sides are lower-cased.               *)

RECURSIVE LikeMatch(_, _)
LikeMatch(t, p) ==
    IF p = <<>> THEN t = <<>>
    ELSE IF p[1] = "\\" /\ Len(p) >= 2
         THEN t # <<>> /\ t[1] = p[2] /\ LikeMatch(Tail(t), Drop(p, 3))
    ELSE IF p[1] = "%"
         THEN \E k \in 1..(Len(t) + 1) : LikeMatch(Drop(t, k), Tail(p))
    ELSE IF p[1] = "_"
         THEN t # <<>> /\ LikeMatch(Tail(t), Tail(p))
    ELSE t # <<>> /\ t[1] = p[1] /\ LikeMatch(Tail(t), Tail(p))

ILike(t, p) == LikeMatch(Lower(t), Lower(p))

\* The pattern searchNodes builds: `%${search_query}%`.
SearchPattern(search_query) == <<"%">> \o search_query \o <<"%">>

-----------------------------------------------------------------------------
(* The reads. *)

\* A join that attaches every selected observation to every entity.
ObservationsOfAny(observation_rows, name) ==
    BagMap(observation_rows, LAMBDA o : o.observation)

\* entity_observations_db.filter(o => o.entity_name === entity.name).map(o => o.observation)
ObservationsOf(observation_rows, name) ==
    BagMap(BagFilter(observation_rows, LAMBDA o : o.entity_name = name),
           LAMBDA o : o.observation)

\* entities.push({name, entityType, observations}) for each selected entity row
Hydrate(entity_rows, observation_rows) ==
    BagMap(entity_rows,
           LAMBDA e : [name |-> e.name, entityType |-> e.type,
                       observations |-> ObservationsOf(observation_rows, e.name)])

readGraph(db, user_id) ==
    IF SelectsRaise(db, 3) THEN Failure("connection") ELSE
    LET entity_db == BagFilter(db.entity, LAMBDA r : OwnedBy(r, user_id))
        entity_observations_db ==
            BagFilter(db.entity_observation, LAMBDA r : OwnedBy(r, user_id))
        relations_db == BagFilter(db.relation, LAMBDA r : OwnedBy(r, user_id))
    IN  [success |-> TRUE,
         graph |-> [entities |-> Hydrate(entity_db, entity_observations_db),
                    relations |-> BagMap(relations_db,
                        LAMBDA r : [from |-> r.from, to |-> r.to,
                                    relationType |-> r.type])]]

\* A search that returns the observation rows of the entities it found only.
searchNodesJoined(db, user_id, search_query) ==
    LET found == BagFilter(db.entity, LAMBDA r : OwnedBy(r, user_id)
                               /\ ILike(r.name, SearchPattern(search_query)))
    IN  [success |-> TRUE,
         entityNamesResult |-> found,
         entityObservationsResult |->
             BagFilter(db.entity_observation, LAMBDA r : OwnedBy(r, user_id)
                           /\ ILike(r.observation, SearchPattern(search_query))
                           /\ \E e \in BagToSet(found) : e.name = r.entity_name),
         entityTypesResult |->
             BagFilter(db.entity, LAMBDA r : OwnedBy(r, user_id)
                           /\ ILike(r.type, SearchPattern(search_query)))]

\* The three selects of searchNodes; the `entities` list it builds is not returned.
searchNodes(db, user_id, search_query) ==
    IF SelectsRaise(db, 3) THEN Failure("connection") ELSE
    [success |-> TRUE,
     entityNamesResult |->
         BagFilter(db.entity, LAMBDA r : OwnedBy(r, user_id)
                       /\ ILike(r.name, SearchPattern(search_query))),
     entityObservationsResult |->
         BagFilter(db.entity_observation, LAMBDA r : OwnedBy(r, user_id)
                       /\ ILike(r.observation, SearchPattern(search_query))),
     entityTypesResult |->
         BagFilter(db.entity, LAMBDA r : OwnedBy(r, user_id)
                       /\ ILike(r.type, SearchPattern(search_query)))]

\* where('name', 'in', node_names): Kysely renders an empty list as "in ()",
\* which PostgreSQL rejects as a syntax error; execute() raises it.
InListRaises(node_names) == node_names = <<>>

openNodes(db, user_id, node_names) ==
    IF InListRaises(node_names)
    THEN Failure("syntax error at or near \")\"")
    ELSE IF SelectsRaise(db, 2)
    THEN Failure("connection")
    ELSE LET entities_db ==
                 BagFilter(db.entity, LAMBDA r : OwnedBy(r, user_id)
                               /\ r.name \in Range(node_names))
             entity_observations_db ==
                 BagFilter(db.entity_observation, LAMBDA r : OwnedBy(r, user_id)
                               /\ r.entity_name \in Range(node_names))
         IN  [success |-> TRUE,
              graph |-> [entities |-> Hydrate(entities_db, entity_observations_db)]]

-----------------------------------------------------------------------------
(* Identity and access control (types of src/unnamed/part_000, AuthService). *)

Roles == {"admin", "user", "readonly"}

GraphTools ==
    {"create_entities", "create_relations", "add_observations",
     "delete_entities", "delete_relations", "delete_observations",
     "read_graph", "search_nodes", "open_nodes"}

\* A JavaScript value that is absent.
Undefined == "undefined"

\* !v for a string or absent value: undefined and the empty string are falsy.
Falsy(v) == v \in {Undefined, ""}

\* What oauthProvider.validateAccessToken(token) does: it raises, resolves to
\* null, or resolves to token data in which userId, props.tenantId and scope
\* may be absent (a scope that is no string has no split method).
ProviderOutcomes ==
    [kind : {"throws", "null"}]
        \cup [kind : {"tokenData"},
              userId : {Undefined, "", "u1"},
              tenantId : {Undefined, "", "t1"},
              scope : {Undefined, "string", "other"}]

\* throw new AuthError(...)
AuthError(message) == [kind |-> "AuthError", message |-> message, statusCode |-> 401]

\* A validateToken without the try block: what the provider or the payload
\* construction raises leaves the function as it is.
validateTokenUncaught(outcome) ==
    IF outcome.kind = "throws" THEN [kind |-> "Error"]
    ELSE IF outcome.kind = "null" \/ Falsy(outcome.userId)
    THEN AuthError("Invalid token")
    ELSE IF outcome.scope = "other" THEN [kind |-> "TypeError"]
    ELSE [kind |-> "payload",
          payload |-> [userId |-> outcome.userId,
                       tenantId |-> IF Falsy(outcome.tenantId) THEN outcome.userId
                                    ELSE outcome.tenantId]]

\* validateToken of AuthService: whatever is raised inside the try block, the
\* AuthError("Invalid token") of the function itself included, is caught and
\* replaced by AuthError("Token validation failed").  sessionId, scope, exp and
\* iat of the payload are left out.
validateToken(outcome) ==
    IF \/ outcome.kind \in {"throws", "null"}
       \/ Falsy(outcome.userId)
       \/ outcome.scope = "other"
    THEN AuthError("Token validation failed")
    ELSE [kind |-> "payload",
          payload |-> [userId |-> outcome.userId,
                       tenantId |-> IF Falsy(outcome.tenantId) THEN outcome.userId
                                    ELSE outcome.tenantId]]

\* hasPermission: userContext.permissions.has(permission) || role === "admin"
hasPermission(userContext, permission) ==
    permission \in userContext.permissions \/ userContext.user.role = "admin"

\* A check that lets an admin pass before it looks at the tool's entry.
canAccessToolAdminFirst(userContext, toolName) ==
    LET toolConfig == userContext.tenant.toolConfig
    IN  \/ userContext.user.role = "admin"
        \/ /\ toolName \in DOMAIN toolConfig
           /\ toolConfig[toolName].enabled
           /\ userContext.user.role \in toolConfig[toolName].allowedRoles

\* canAccessTool of AuthService: the tenant's entry for the tool decides.
canAccessTool(userContext, toolName) ==
    LET toolConfig == userContext.tenant.toolConfig
    IN  IF toolName \notin DOMAIN toolConfig \/ ~toolConfig[toolName].enabled
        THEN FALSE
        ELSE userContext.user.role \in toolConfig[toolName].allowedRoles
                 \/ userContext.user.role = "admin"

\* The users and the tenant the graph tool calls are made for.
UserDirectory ==
    [u \in UserIds |->
        [id |-> u, tenantId |-> "t1",
         role |-> IF u = "u1" THEN "user" ELSE "readonly",
         permissions |-> {"read_profile", "read_data", "write_data"}]]

TenantDirectory ==
    [t \in TenantIds |->
        [id |-> t,
         toolConfig |->
            [n \in GraphTools |->
                [enabled |-> n # "delete_entities",
                 allowedRoles |->
                    IF n \in {"read_graph", "search_nodes", "open_nodes"}
                    THEN {"admin", "user", "readonly"}
                    ELSE {"admin", "user"}]]]]

\* The UserContext of an authenticated user: user, tenant, permissions.
ContextOf(u) ==
    [user |-> UserDirectory[u],
     tenant |-> TenantDirectory[UserDirectory[u].tenantId],
     permissions |-> UserDirectory[u].permissions]

\* A handler that passes the tenant id as the owner.
GraphOwnerTenantId(userContext) == userContext.user.tenantId

\* this.props.user.id: what every graph tool handler passes as the owner.
GraphOwnerId(userContext) == userContext.user.id

-----------------------------------------------------------------------------
(* The tool surface: MyMCP.registerTools.  Each handler calls the store     *)
(* function with GraphOwnerId and answers with the JSON text of the result.  *)

NoCall == [tool |-> "none"]

\* Whether entity_observation holds a row under (o, n).
HasObservation(db, o, n) ==
    \E r \in BagToSet(db.entity_observation) : r.user_id = o /\ r.entity_name = n

\* Whether entity holds a row of key (o, n).
HasEntity(db, o, n) ==
    \E r \in BagToSet(db.entity) : r.user_id = o /\ r.name = n

\* The record of a call: raised says whether a statement it issued raised.
Called(tool, u, args, result, payload, raised) ==
    [tool |-> tool, caller |-> u, owner |-> GraphOwnerId(ContextOf(u)),
     args |-> args, result |-> result, payload |-> payload, raised |-> raised]

\* The tables after the call; the fault the call met is spent.
Commit(r) ==
    /\ RowCount(r.db) <= MaxRows
    /\ entity' = r.db.entity
    /\ relation' = r.db.relation
    /\ entity_observation' = r.db.entity_observation
    /\ fault' = 0
    /\ UNCHANGED <<identityVars, requestVars>>

\* JSON.stringify(result.graph): undefined when the result carries no graph,
\* and the answer then has no text.
GraphPayload(result) == IF result.success THEN result.graph ELSE [undefined |-> TRUE]

Tool_create_entities(u, entities) ==
    LET r == createEntities(DB, GraphOwnerId(ContextOf(u)), entities)
    IN  /\ Commit(r)
        /\ res' = Called("create_entities", u, [entities |-> entities],
                         r.result, r.result, r.db.raised)
        /\ deleted' = {p \in deleted : ~HasEntity(r.db, p[1], p[2])}
        /\ UNCHANGED access

Tool_create_relations(u, relations) ==
    LET r == createRelations(DB, GraphOwnerId(ContextOf(u)), relations)
    IN  /\ Commit(r)
        /\ res' = Called("create_relations", u, [relations |-> relations],
                         r.result, r.result, r.db.raised)
        /\ UNCHANGED <<access, deleted>>

Tool_add_observations(u, entity_name, observations) ==
    LET r == add_observations(DB, GraphOwnerId(ContextOf(u)), entity_name,
                              observations)
    IN  /\ Commit(r)
        /\ res' = Called("add_observations", u,
                         [entity_name |-> entity_name,
                          observations |-> observations],
                         r.result, r.result, r.db.raised)
        /\ UNCHANGED <<access, deleted>>

Tool_delete_entities(u, entity_names) ==
    LET r == deleteEntities(DB, GraphOwnerId(ContextOf(u)), entity_names)
    IN  /\ Commit(r)
        /\ res' = Called("delete_entities", u, [entity_names |-> entity_names],
                         r.result, r.result, r.db.raised)
        /\ deleted' = deleted \cup
               {<<GraphOwnerId(ContextOf(u)), n>> : n \in
                   {m \in Range(entity_names) :
                       /\ HasEntity(DB, GraphOwnerId(ContextOf(u)), m)
                       /\ ~HasEntity(r.db, GraphOwnerId(ContextOf(u)), m)
                       /\ HasObservation(r.db, GraphOwnerId(ContextOf(u)), m)}}
        /\ UNCHANGED access

Tool_delete_relations(u, relations) ==
    LET r == deleteRelations(DB, GraphOwnerId(ContextOf(u)), relations)
    IN  /\ Commit(r)
        /\ res' = Called("delete_relations", u, [relations |-> relations],
                         r.result, r.result, r.db.raised)
        /\ UNCHANGED <<access, deleted>>

Tool_delete_observations(u, entity_name, observations) ==
    LET r == deleteObservations(DB, GraphOwnerId(ContextOf(u)), entity_name,
                                observations)
    IN  /\ Commit(r)
        /\ res' = Called("delete_observations", u,
                         [entity_name |-> entity_name,
                          observations |-> observations],
                         r.result, r.result, r.db.raised)
        /\ deleted' = {p \in deleted : HasObservation(r.db, p[1], p[2])}
        /\ UNCHANGED access

Tool_read_graph(u) ==
    LET result == readGraph(DB, GraphOwnerId(ContextOf(u)))
    IN  /\ res' = Called("read_graph", u, [none |-> TRUE], result,
                         GraphPayload(result), SelectsRaise(DB, 3))
        /\ fault' = 0
        /\ UNCHANGED <<entity, relation, entity_observation, access, deleted>>
        /\ UNCHANGED <<identityVars, requestVars>>

Tool_search_nodes(u, query) ==
    LET result == searchNodes(DB, GraphOwnerId(ContextOf(u)), query)
    IN  /\ res' = Called("search_nodes", u, [query |-> query], result, result,
                         SelectsRaise(DB, 3))
        /\ fault' = 0
        /\ UNCHANGED <<entity, relation, entity_observation, access, deleted>>
        /\ UNCHANGED <<identityVars, requestVars>>

Tool_open_nodes(u, names) ==
    LET result == openNodes(DB, GraphOwnerId(ContextOf(u)), names)
    IN  /\ res' = Called("open_nodes", u, [names |-> names], result,
                         GraphPayload(result),
                         InListRaises(names) \/ SelectsRaise(DB, 2))
        /\ fault' = 0
        /\ UNCHANGED <<entity, relation, entity_observation, access, deleted>>
        /\ UNCHANGED <<identityVars, requestVars>>

-----------------------------------------------------------------------------
(* Identity: the users and tenants kept in OAUTH_KV, and createUserContext   *)
(* of AuthService, which loads them and creates defaults.  A step is one     *)
(* operation of the key-value store or the code between two of them; the     *)
(* steps of concurrent calls interleave.  name, settings and rateLimits of   *)
(* a tenant and sessionId are left out.                                      *)

\* The last reading of the clock.
MaxClock == 1

CallIds == {"c1", "c2"}

\* The token payloads createUserContext is called with (validateToken's
\* result): a user whose tenant is its own id, or tenant t1.
TokenPayloads == [userId : {"u1"}, tenantId : {"u1", "t1"}]

\* What createUser is called with: email, the id randomUUID() gives, tenantId.
Emails == {"e1"}

RegisteredIds == {"r1"}

\* `user:${x}`, `user-by-id:${x}`, `tenant:${x}`
UserKey(x) == <<"user", x>>

UserByIdKey(x) == <<"user-by-id", x>>

TenantKey(x) == <<"tenant", x>>

\* OAUTH_KV.put(key, JSON.stringify(value))
Put(kv, key, value) ==
    [k \in DOMAIN kv \cup {key} |-> IF k = key THEN value ELSE kv[k]]

BaselinePermissions == {"read_profile", "read_data", "write_data"}

\* A default user whose id is not the one asked for.
DefaultUserOtherId(userId, t) ==
    [id |-> "fresh", email |-> userId, tenantId |-> userId, role |-> "user",
     permissions |-> BaselinePermissions, createdAt |-> t, lastActiveAt |-> t,
     isActive |-> TRUE]

\* defaultUser of loadUser, created at time t.
DefaultUser(userId, t) ==
    [id |-> userId, email |-> userId, tenantId |-> userId, role |-> "user",
     permissions |-> BaselinePermissions, createdAt |-> t, lastActiveAt |-> t,
     isActive |-> TRUE]

\* defaultTenant of loadTenant, created at time t.
DefaultTenant(tenantId, t) ==
    [id |-> tenantId, ownerId |-> tenantId,
     toolConfig |-> [n \in {"add"} |->
                        [enabled |-> TRUE, allowedRoles |-> {"admin", "user"}]],
     createdAt |-> t, isActive |-> TRUE]

\* The tenant ensureTenantExists creates.
RegisteredTenant(tenantId, ownerId, t) ==
    [id |-> tenantId, ownerId |-> ownerId,
     toolConfig |-> [n \in {"add", "calculate", "get_user_info"} |->
                        [enabled |-> TRUE,
                         allowedRoles |-> IF n = "get_user_info"
                                          THEN {"admin", "user", "readonly"}
                                          ELSE {"admin", "user"}]],
     createdAt |-> t, isActive |-> TRUE]

\* What get answers for a key without a value (null), and a local variable
\* that is not set.
NoRecord == [none |-> TRUE]

\* A load that answers with the default whatever is stored.
loadedDefault(kv, key, default) == [data |-> NoRecord, value |-> default]

\* const data = await OAUTH_KV.get(key); if (!data) { the default } else
\* JSON.parse(data): what loadUser and loadTenant go on with.
loaded(kv, key, default) ==
    IF key \in DOMAIN kv
    THEN [data |-> kv[key], value |-> kv[key]]
    ELSE [data |-> NoRecord, value |-> default]

\* A call that is not running.  userData and tenantData are what the gets
\* of loadUser and loadTenant answered; targetUser and response belong to the
\* route handler that runs with the context the call returned.
IdleCall ==
    [pc |-> "idle", tokenPayload |-> NoRecord, userPc |-> "done",
     tenantPc |-> "done", user |-> NoRecord, tenant |-> NoRecord,
     userData |-> NoRecord, tenantData |-> NoRecord,
     targetUser |-> NoRecord, response |-> NoRecord]

\* createUserContext(tokenPayload) is called: Promise.all starts loadUser and
\* loadTenant.
Call_createUserContext(c, tokenPayload) ==
    /\ calls[c].pc \in {"idle", "returned", "responded"}
    /\ calls' = [calls EXCEPT ![c] =
                    [IdleCall EXCEPT !.pc = "loading",
                                     !.tokenPayload = tokenPayload,
                                     !.userPc = "get", !.tenantPc = "get"]]
    /\ UNCHANGED <<OAUTH_KV, now>>
    /\ UNCHANGED <<graphVars, requestVars>>

\* loadUser: the get and the branch on its answer.
loadUser_get(c) ==
    /\ calls[c].pc = "loading"
    /\ calls[c].userPc = "get"
    /\ LET userId == calls[c].tokenPayload.userId
           l == loaded(OAUTH_KV, UserKey(userId), DefaultUser(userId, now))
       IN  calls' = [calls EXCEPT ![c].user = l.value,
                                  ![c].userData = l.data,
                                  ![c].userPc = IF l.data = NoRecord THEN "put"
                                                ELSE "done"]
    /\ UNCHANGED <<OAUTH_KV, now>>
    /\ UNCHANGED <<graphVars, requestVars>>

\* loadUser: the put of the default user.
loadUser_put(c) ==
    /\ calls[c].pc = "loading"
    /\ calls[c].userPc = "put"
    /\ OAUTH_KV' = Put(OAUTH_KV, UserKey(calls[c].tokenPayload.userId),
                       calls[c].user)
    /\ calls' = [calls EXCEPT ![c].userPc = "done"]
    /\ UNCHANGED now
    /\ UNCHANGED <<graphVars, requestVars>>

\* loadTenant: the get and the branch on its answer.
loadTenant_get(c) ==
    /\ calls[c].pc = "loading"
    /\ calls[c].tenantPc = "get"
    /\ LET tenantId == calls[c].tokenPayload.tenantId
           l == loaded(OAUTH_KV, TenantKey(tenantId), DefaultTenant(tenantId, now))
       IN  calls' = [calls EXCEPT ![c].tenant = l.value,
                                  ![c].tenantData = l.data,
                                  ![c].tenantPc = IF l.data = NoRecord THEN "put"
                                                  ELSE "done"]
    /\ UNCHANGED <<OAUTH_KV, now>>
    /\ UNCHANGED <<graphVars, requestVars>>

\* loadTenant: the put of the default tenant.
loadTenant_put(c) ==
    /\ calls[c].pc = "loading"
    /\ calls[c].tenantPc = "put"
    /\ OAUTH_KV' = Put(OAUTH_KV, TenantKey(calls[c].tokenPayload.tenantId),
                       calls[c].tenant)
    /\ calls' = [calls EXCEPT ![c].tenantPc = "done"]
    /\ UNCHANGED now
    /\ UNCHANGED <<graphVars, requestVars>>

\* createUserContext after Promise.all: user.lastActiveAt = new Date(), and
\* the put of the user is issued.
createUserContext_touch(c) ==
    /\ calls[c].pc = "loading"
    /\ calls[c].userPc = "done"
    /\ calls[c].tenantPc = "done"
    /\ calls' = [calls EXCEPT ![c].user.lastActiveAt = now,
                              ![c].pc = "touching"]
    /\ UNCHANGED <<OAUTH_KV, now>>
    /\ UNCHANGED <<graphVars, requestVars>>

\* createUserContext: the put under `user:${user.id}` takes effect and the
\* call returns {user, tenant, sessionId, permissions}.
createUserContext_put(c) ==
    /\ calls[c].pc = "touching"
    /\ OAUTH_KV' = Put(OAUTH_KV, UserKey(calls[c].user.id), calls[c].user)
    /\ calls' = [calls EXCEPT ![c].pc = "returned"]
    /\ UNCHANGED now
    /\ UNCHANGED <<graphVars, requestVars>>

\* The UserContext a returned call gave.
Returned(c) ==
    [user |-> calls[c].user, tenant |-> calls[c].tenant,
     permissions |-> calls[c].user.permissions]

\* The passwords of the login form.
Passwords == {"Pw", "Qw"}

\* hashPassword: the hex SHA-256 of password + "mcp-server-salt".  The digest
\* is kept as the text it is taken of; collisions are left out.
hashPassword(password) == <<"sha256", password, "mcp-server-salt">>

\* verifyPassword: the computed hash is compared with the stored one.
verifyPassword(password, hash) == hashPassword(password) = hash

\* const { passwordHash, ...safeUser } = user
safeUser(user) == [f \in DOMAIN user \ {"passwordHash"} |-> user[f]]

\* validateCredentials(email, password): the user without its passwordHash,
\* or null when no record is stored under the email, the record carries no
\* passwordHash, or the password does not verify.
validateCredentials(kv, email, password) ==
    IF UserKey(email) \notin DOMAIN kv THEN NoRecord
    ELSE LET user == kv[UserKey(email)]
         IN  IF "passwordHash" \notin DOMAIN user THEN NoRecord
             ELSE IF ~verifyPassword(password, user.passwordHash) THEN NoRecord
             ELSE safeUser(user)

\* getUserByEmail(email)
getUserByEmail(kv, email) ==
    IF UserKey(email) \in DOMAIN kv THEN safeUser(kv[UserKey(email)])
    ELSE NoRecord

\* getUserById(userId)
getUserById(kv, userId) ==
    IF UserByIdKey(userId) \in DOMAIN kv THEN safeUser(kv[UserByIdKey(userId)])
    ELSE NoRecord

\* updateLastActive(userId): the user getUserById gives is stored, with a new
\* lastActiveAt, under its email and under its id.
updateLastActive(kv, userId, t) ==
    LET user == getUserById(kv, userId)
    IN  IF user = NoRecord THEN kv
        ELSE LET active == [user EXCEPT !.lastActiveAt = t]
             IN  Put(Put(kv, UserKey(user.email), active),
                     UserByIdKey(userId), active)

\* ensureTenantExists(tenantId, ownerId)
ensureTenantExists(kv, tenantId, ownerId, t) ==
    IF TenantKey(tenantId) \in DOMAIN kv THEN kv
    ELSE Put(kv, TenantKey(tenantId), RegisteredTenant(tenantId, ownerId, t))

\* UserService.createUser(email, password, tenantId) with userId the id
\* randomUUID() gives: the user is stored under its email and under its id,
\* and ensureTenantExists stores the tenant when none is stored.
UserService_createUser(kv, email, password, userId, tenantId, t) ==
    LET finalTenantId == IF Falsy(tenantId) THEN userId ELSE tenantId
        user == [id |-> userId, email |-> email, tenantId |-> finalTenantId,
                 role |-> "user", permissions |-> BaselinePermissions,
                 createdAt |-> t, lastActiveAt |-> t, isActive |-> TRUE,
                 passwordHash |-> hashPassword(password)]
    IN  [kv |-> ensureTenantExists(
                    Put(Put(kv, UserKey(email), user), UserByIdKey(userId), user),
                    finalTenantId, userId, t),
         user |-> safeUser(user)]

\* A call of UserService.createUser.
createUser(email, password, userId, tenantId) ==
    /\ UserByIdKey(userId) \notin DOMAIN OAUTH_KV
    /\ OAUTH_KV' =
           UserService_createUser(OAUTH_KV, email, password, userId, tenantId, now).kv
    /\ UNCHANGED <<calls, now>>
    /\ UNCHANGED <<graphVars, requestVars>>

\* Time passes.
Tick ==
    /\ now < MaxClock
    /\ now' = now + 1
    /\ UNCHANGED <<OAUTH_KV, calls>>
    /\ UNCHANGED <<graphVars, requestVars>>

\* The createEntities calls that can run side by side.
CreateIds == {"k1", "k2"}

\* A createEntities call that is not running.
IdleCreate ==
    [pc |-> "idle", userId |-> "", args |-> <<>>, entities |-> <<>>,
     observations |-> <<>>, result |-> NoRecord]

\* A UserMcpAgent instance as constructed: userContext and authService are
\* not set, and no request has been answered.
NewAgent == [userContext |-> NoRecord, response |-> NoRecord]

\* No createEntities call is running and the agent is as constructed.
InitRequests ==
    /\ creates = [k \in CreateIds |-> IdleCreate]
    /\ agent = NewAgent
    /\ http = NoRecord

\* Nothing is stored and no call is running.
InitIdentity ==
    /\ OAUTH_KV = <<>>
    /\ calls = [c \in CallIds |-> IdleCall]
    /\ now = 0

\* The steps of a call in progress.
ContextStep(c) ==
    \/ loadUser_get(c)
    \/ loadUser_put(c)
    \/ loadTenant_get(c)
    \/ loadTenant_put(c)
    \/ createUserContext_touch(c)
    \/ createUserContext_put(c)

\* Requests arriving at any time, registrations among them.
InitContext ==
    /\ entity = EmptyBag
    /\ relation = EmptyBag
    /\ entity_observation = EmptyBag
    /\ res = NoCall
    /\ access = [call |-> "none"]
    /\ deleted = {}
    /\ fault = 0
    /\ InitIdentity
    /\ InitRequests

NextContext ==
    \/ \E c \in CallIds, tokenPayload \in TokenPayloads :
           Call_createUserContext(c, tokenPayload)
    \/ \E c \in CallIds : ContextStep(c)
    \/ \E email \in Emails, userId \in RegisteredIds, tenantId \in {Undefined, "t1"} :
           createUser(email, "Pw", userId, tenantId)
    \/ Tick

SpecContext == InitContext /\ [][NextContext]_vars

\* Two first requests of one new identity: both calls have started, nothing
\* is stored, and nothing else runs.
InitRace ==
    /\ entity = EmptyBag
    /\ relation = EmptyBag
    /\ entity_observation = EmptyBag
    /\ res = NoCall
    /\ access = [call |-> "none"]
    /\ deleted = {}
    /\ fault = 0
    /\ OAUTH_KV = <<>>
    /\ now = 0
    /\ \E tokenPayload \in TokenPayloads :
           calls = [c \in CallIds |->
                       [IdleCall EXCEPT !.pc = "loading",
                                        !.tokenPayload = tokenPayload,
                                        !.userPc = "get", !.tenantPc = "get"]]
    /\ InitRequests

NextRace ==
    \/ \E c \in CallIds : ContextStep(c)
    \/ Tick

SpecRace == InitRace /\ [][NextRace]_vars

-----------------------------------------------------------------------------
(* createEntities calls running side by side.  A step is one statement of    *)
(* the database: the calls share no transaction, so their statements         *)
(* interleave.  No statement fails for a reason of the storage in these runs. *)

\* createEntities(hyperdrive, userId, entities) is called.
Call_createEntities(k, userId, entities) ==
    /\ creates[k].pc = "idle"
    /\ creates' = [creates EXCEPT ![k] =
                      [pc |-> IF entities = <<>> THEN "returned" ELSE "entity",
                       userId |-> userId, args |-> entities,
                       entities |-> entities, observations |-> <<>>,
                       result |-> IF entities = <<>> THEN Ok ELSE NoRecord]]
    /\ UNCHANGED <<agent, http, graphVars, identityVars>>

\* insertInto('entity') of the entity the loop is at: a taken key raises and
\* the catch returns the failure; otherwise the row is stored and
\* createEntityObservations is called with the entity's observations.
createEntities_insert(k) ==
    /\ creates[k].pc = "entity"
    /\ LET e == Head(creates[k].entities)
           row == [user_id |-> creates[k].userId, name |-> e.name,
                   type |-> e.entityType]
       IN  IF EntityKeyTaken(DB, row)
           THEN /\ creates' = [creates EXCEPT ![k].pc = "returned",
                                              ![k].result = Failure("entity_pkey")]
                /\ UNCHANGED entity
           ELSE /\ entity' = BagAdd(entity, row)
                /\ creates' = [creates EXCEPT ![k].pc = "observations",
                                              ![k].observations = e.observations]
    /\ UNCHANGED <<relation, entity_observation, res, access, deleted, fault>>
    /\ UNCHANGED <<agent, http, identityVars>>

\* createEntityObservations: insertInto('entity_observation') of the next
\* observation.
createEntityObservations_insert(k) ==
    /\ creates[k].pc = "observations"
    /\ creates[k].observations # <<>>
    /\ entity_observation' =
           BagAdd(entity_observation,
                  [user_id |-> creates[k].userId,
                   entity_name |-> Head(creates[k].entities).name,
                   observation |-> Head(creates[k].observations)])
    /\ creates' = [creates EXCEPT ![k].observations = Tail(@)]
    /\ UNCHANGED <<entity, relation, res, access, deleted, fault>>
    /\ UNCHANGED <<agent, http, identityVars>>

\* createEntityObservations has returned: the loop goes to the next entity, or
\* createEntities returns { success: true }.
createEntities_next(k) ==
    /\ creates[k].pc = "observations"
    /\ creates[k].observations = <<>>
    /\ LET rest == Tail(creates[k].entities)
       IN  creates' = [creates EXCEPT
                          ![k].entities = rest,
                          ![k].pc = IF rest = <<>> THEN "returned" ELSE "entity",
                          ![k].result = IF rest = <<>> THEN Ok ELSE NoRecord]
    /\ UNCHANGED <<agent, http, graphVars, identityVars>>

\* The values of the runs of concurrent calls: one owner, entities that can
\* differ in type and observations.
CreateRun ==
    [users |-> {"u1"},
     entityTypes |-> EntityTypes,
     texts |-> ObservationTexts,
     relations |-> {},
     queries |-> {}]

NextCreate ==
    \/ \E k \in CreateIds, u \in CreateRun.users,
          entities \in SeqsUpTo(EntityInputs(CreateRun), 1) :
           Call_createEntities(k, u, entities)
    \/ \E k \in CreateIds : createEntities_insert(k)
    \/ \E k \in CreateIds : createEntityObservations_insert(k)
    \/ \E k \in CreateIds : createEntities_next(k)

-----------------------------------------------------------------------------
(* The routes of the application (src/src/app.ts) and the administrative     *)
(* routes (src/src/admin-routes.ts).  /approve and /register are taken as    *)
(* one step each.  A route under /api runs after the middleware of            *)
(* createAuthMiddleware, which puts the UserContext createUserContext         *)
(* returned into the request: the handler of call c runs with Returned(c).   *)
(* name, settings, rateLimits and customConfig of a tenant are left out.     *)

\* POST /register with a valid email and password and confirmPassword equal
\* to password; userId is the id randomUUID() gives.
Route_register(email, password, userId) ==
    /\ UserByIdKey(userId) \notin DOMAIN OAUTH_KV
    /\ IF getUserByEmail(OAUTH_KV, email) # NoRecord
       THEN /\ http' = [route |-> "register", status |-> 409]
            /\ UNCHANGED OAUTH_KV
       ELSE LET created == UserService_createUser(OAUTH_KV, email, password,
                                                  userId, Undefined, now)
            IN  /\ OAUTH_KV' = created.kv
                /\ http' = [route |-> "register", status |-> 200,
                            userId |-> created.user.id]
    /\ UNCHANGED <<calls, now, creates, agent>>
    /\ UNCHANGED graphVars

\* POST /approve with action login_approve, a valid email and password:
\* the credentials are validated; an email that is not stored is registered;
\* the user's lastActiveAt is updated and the authorization completed with
\* userId user.id and props.tenantId user.tenantId.
Route_approve(email, password, userId) ==
    /\ UserByIdKey(userId) \notin DOMAIN OAUTH_KV
    /\ LET valid == validateCredentials(OAUTH_KV, email, password)
           existingUser == getUserByEmail(OAUTH_KV, email)
           created == UserService_createUser(OAUTH_KV, email, password,
                                             userId, Undefined, now)
           user == IF valid # NoRecord THEN valid ELSE created.user
           kv == IF valid # NoRecord THEN OAUTH_KV ELSE created.kv
       IN  IF valid = NoRecord /\ existingUser # NoRecord
           THEN /\ http' = [route |-> "approve", approved |-> FALSE,
                            email |-> email, password |-> password]
                /\ UNCHANGED OAUTH_KV
           ELSE /\ OAUTH_KV' = updateLastActive(kv, user.id, now)
                /\ http' = [route |-> "approve", approved |-> TRUE,
                            email |-> email, password |-> password,
                            userId |-> user.id, tenantId |-> user.tenantId]
    /\ UNCHANGED <<calls, now, creates, agent>>
    /\ UNCHANGED graphVars

\* The tools the administrative requests name.
AdminTools == {"add", "calculate"}

\* A JSON body is a record of the fields it carries: body[field] is
\* undefined for a field outside its domain.
Has(body, field) == field \in DOMAIN body

\* The bodies of PUT /tools/:toolName: enabled and allowedRoles may be absent.
ToolConfigBodies ==
    [customConfig : {"c"}]
        \cup [enabled : {FALSE}]
        \cup [allowedRoles : {{"admin"}, {"root"}}]
        \cup [enabled : {FALSE}, allowedRoles : {{"admin"}}]

\* The bodies of PUT /tenant: toolConfig may be absent.
TenantBodies ==
    [name : {"n"}]
        \cup [toolConfig : {[n \in {"calculate"} |->
                               [enabled |-> TRUE, allowedRoles |-> {"admin"}]]}]

\* The bodies of PUT /users/:userId: role and isActive may be absent.
UserBodies ==
    [role : {"", "admin", "readonly", "superuser"}]
        \cup [isActive : {FALSE}]
        \cup [role : {"readonly"}, isActive : {FALSE}]

\* The handler of call c answers.
Respond(c, response) ==
    calls' = [calls EXCEPT ![c].pc = "responded", ![c].response = response]

\* requireAdmin: the role of the request's UserContext is admin.
requireAdmin(c) == calls[c].pc = "returned" /\ Returned(c).user.role = "admin"

\* requireAdmin answers 403 to a caller whose role is not admin.
Admin_forbidden(c) ==
    /\ calls[c].pc = "returned"
    /\ Returned(c).user.role # "admin"
    /\ Respond(c, [route |-> "admin", status |-> 403])
    /\ UNCHANGED <<OAUTH_KV, now>>
    /\ UNCHANGED <<graphVars, requestVars>>

\* A handler that edits the tenant as it is stored when the handler runs.
StoredTenant(c) ==
    IF TenantKey(Returned(c).tenant.id) \in DOMAIN OAUTH_KV
    THEN OAUTH_KV[TenantKey(Returned(c).tenant.id)]
    ELSE Returned(c).tenant

\* userContext.tenant: the tenant every administrative handler edits, as the
\* middleware loaded it.
ContextTenant(c) == Returned(c).tenant

\* PUT /tenant: { ...userContext.tenant, ...filteredUpdates } is stored.
Admin_putTenant(c, updates) ==
    /\ requireAdmin(c)
    /\ LET tenant == ContextTenant(c)
           updatedTenant == IF Has(updates, "toolConfig")
                            THEN [tenant EXCEPT !.toolConfig = updates.toolConfig]
                            ELSE tenant
       IN  /\ OAUTH_KV' = Put(OAUTH_KV, TenantKey(Returned(c).tenant.id),
                              updatedTenant)
           /\ Respond(c, [route |-> "PUT /tenant", status |-> 200,
                          updates |-> updates])
    /\ UNCHANGED now
    /\ UNCHANGED <<graphVars, requestVars>>

\* toolConfig with the entry of toolName set.
WithTool(toolConfig, toolName, entry) ==
    [n \in DOMAIN toolConfig \cup {toolName} |->
        IF n = toolName THEN entry ELSE toolConfig[n]]

\* PUT /tools/:toolName: a role outside admin, user, readonly is answered 400;
\* otherwise the tenant with the tool's entry replaced is stored.
Admin_putTool(c, toolName, config) ==
    /\ requireAdmin(c)
    /\ IF Has(config, "allowedRoles") /\ ~(config.allowedRoles \subseteq Roles)
       THEN /\ Respond(c, [route |-> "PUT /tools", status |-> 400,
                           tool |-> toolName])
            /\ UNCHANGED OAUTH_KV
       ELSE LET tenant == ContextTenant(c)
                entry == [enabled |-> IF Has(config, "enabled")
                                      THEN config.enabled ELSE TRUE,
                          allowedRoles |-> IF Has(config, "allowedRoles")
                                           THEN config.allowedRoles
                                           ELSE {"admin", "user"}]
                updatedTenant ==
                    [tenant EXCEPT !.toolConfig = WithTool(@, toolName, entry)]
            IN  /\ OAUTH_KV' = Put(OAUTH_KV, TenantKey(Returned(c).tenant.id),
                                   updatedTenant)
                /\ Respond(c, [route |-> "PUT /tools", status |-> 200,
                               tool |-> toolName, config |-> entry])
    /\ UNCHANGED now
    /\ UNCHANGED <<graphVars, requestVars>>

\* DELETE /tools/:toolName: a tool that has an entry is disabled, and the
\* tenant is stored.
Admin_deleteTool(c, toolName) ==
    /\ requireAdmin(c)
    /\ LET tenant == ContextTenant(c)
           updatedTenant ==
               IF toolName \in DOMAIN tenant.toolConfig
               THEN [tenant EXCEPT !.toolConfig[toolName].enabled = FALSE]
               ELSE tenant
       IN  /\ OAUTH_KV' = Put(OAUTH_KV, TenantKey(Returned(c).tenant.id),
                              updatedTenant)
           /\ Respond(c, [route |-> "DELETE /tools", status |-> 200,
                          tool |-> toolName])
    /\ UNCHANGED now
    /\ UNCHANGED <<graphVars, requestVars>>

\* updates[field] applied to the target for the fields role and isActive.
WithUpdates(user, updates) ==
    [user EXCEPT !.role = IF Has(updates, "role") THEN updates.role ELSE @,
                 !.isActive = IF Has(updates, "isActive") THEN updates.isActive
                              ELSE @]

\* PUT /users/:userId up to the save: an admin who names a role other than
\* admin for itself is answered 400; a target that getUserById does not find
\* or that is of another tenant is answered 404; otherwise the updates are
\* applied to the target.
Admin_putUser(c, userId, updates) ==
    /\ requireAdmin(c)
    /\ LET targetUser == getUserById(OAUTH_KV, userId)
       IN  IF /\ userId = Returned(c).user.id
              /\ Has(updates, "role") /\ ~Falsy(updates.role)
              /\ updates.role # "admin"
           THEN Respond(c, [route |-> "PUT /users", status |-> 400,
                            userId |-> userId])
           ELSE IF \/ targetUser = NoRecord
                   \/ targetUser.tenantId # Returned(c).tenant.id
           THEN Respond(c, [route |-> "PUT /users", status |-> 404,
                            userId |-> userId])
           ELSE calls' = [calls EXCEPT
                             ![c].pc = "saving",
                             ![c].targetUser = WithUpdates(targetUser, updates)]
    /\ UNCHANGED <<OAUTH_KV, now>>
    /\ UNCHANGED <<graphVars, requestVars>>

\* PUT /users/:userId: the target is stored under its email and under its id.
Admin_putUser_save(c) ==
    /\ calls[c].pc = "saving"
    /\ LET targetUser == calls[c].targetUser
       IN  /\ OAUTH_KV' = Put(Put(OAUTH_KV, UserKey(targetUser.email), targetUser),
                              UserByIdKey(targetUser.id), targetUser)
           /\ Respond(c, [route |-> "PUT /users", status |-> 200,
                          userId |-> targetUser.id])
    /\ UNCHANGED now
    /\ UNCHANGED <<graphVars, requestVars>>

\* The administrator of tenant t1 as the operator of the deployment stored it:
\* the record of a registered user with the role admin, under its email, under
\* its id, and under the key loadUser reads.  No path of the code gives a user
\* the role admin under that key.
AdminId == "a1"

AdminUser ==
    [id |-> AdminId, email |-> "e0", tenantId |-> "t1", role |-> "admin",
     permissions |-> BaselinePermissions, createdAt |-> 0, lastActiveAt |-> 0,
     isActive |-> TRUE]

AdminTokenPayloads == [userId : {AdminId, "r1"}, tenantId : {"t1"}]

\* The store holds the administrator; its tenant has not been created.
InitAdmin ==
    /\ entity = EmptyBag
    /\ relation = EmptyBag
    /\ entity_observation = EmptyBag
    /\ res = NoCall
    /\ access = [call |-> "none"]
    /\ deleted = {}
    /\ fault = 0
    /\ OAUTH_KV = Put(Put(Put(<<>>, UserKey(AdminUser.email),
                              [passwordHash |-> hashPassword("Pw")] @@ AdminUser),
                          UserByIdKey(AdminId),
                          [passwordHash |-> hashPassword("Pw")] @@ AdminUser),
                      UserKey(AdminId), AdminUser)
    /\ calls = [c \in CallIds |-> IdleCall]
    /\ now = 0
    /\ InitRequests

\* createAuthMiddleware: a request arrives with a valid token and the
\* middleware calls createUserContext.  A request slot serves one request.
Middleware(c, tokenPayload) ==
    /\ calls[c].pc = "idle"
    /\ Call_createUserContext(c, tokenPayload)

\* Requests that edit the tenant: the middleware's createUserContext and then
\* one handler.
NextTenantAdmin ==
    \/ \E c \in CallIds, tokenPayload \in AdminTokenPayloads :
           Middleware(c, tokenPayload)
    \/ \E c \in CallIds : ContextStep(c)
    \/ \E c \in CallIds : Admin_forbidden(c)
    \/ \E c \in CallIds, updates \in TenantBodies : Admin_putTenant(c, updates)
    \/ \E c \in CallIds, toolName \in AdminTools, config \in ToolConfigBodies :
           Admin_putTool(c, toolName, config)
    \/ \E c \in CallIds, toolName \in AdminTools : Admin_deleteTool(c, toolName)

SpecTenantAdmin == InitAdmin /\ [][NextTenantAdmin]_vars

\* Requests that edit users, registrations and logins.  A registration through
\* the routes gives the user a tenant of its own; createUser with a tenant id
\* stands for a user of the administrator's tenant.
NextUserAdmin ==
    \/ \E c \in CallIds, tokenPayload \in AdminTokenPayloads :
           Middleware(c, tokenPayload)
    \/ \E c \in CallIds : ContextStep(c)
    \/ \E c \in CallIds : Admin_forbidden(c)
    \/ \E c \in CallIds, userId \in {AdminId, "r1"}, updates \in UserBodies :
           Admin_putUser(c, userId, updates)
    \/ \E c \in CallIds : Admin_putUser_save(c)
    \/ \E email \in Emails, tenantId \in {"t1"} :
           createUser(email, "Pw", "r1", tenantId)
    \/ \E email \in Emails, password \in Passwords :
           Route_register(email, password, "r1")
    \/ \E email \in Emails \cup {AdminUser.email}, password \in Passwords :
           Route_approve(email, password, "r1")

SpecUserAdmin == InitAdmin /\ [][NextUserAdmin]_vars

-----------------------------------------------------------------------------
(* The multi-tenant MCP agent (src/unnamed/part_001): UserMcpAgent, the      *)
(* Durable Object every /sse request is sent to (idFromName("singleton")),   *)
(* and the tools MyMCP registers with it.  A request is taken one at a time: *)
(* fetch materializes the UserContext of the request's token, keeps it in    *)
(* this.userContext when that field is not set, and hands the request to the *)
(* tool handler, which reads this.userContext.                               *)

\* The tools of MyMCP.registerTools.
AgentTools == {"add", "calculate", "get_user_info"}

\* The expressions calculate is called with: one that evaluates and one that
\* is empty once sanitized, for which evaluateExpression throws.
Expressions == {"1+1", ""}

\* `audit:${tenant.id}:${Date.now()}:${crypto.randomUUID()}`: a key no other
\* entry has.
AuditKeys(kv) == {k \in DOMAIN kv : k[1] = "audit"}

AuditKey(kv, tenantId) == <<"audit", tenantId, Cardinality(AuditKeys(kv))>>

\* logToolUsage of UserMcpAgent: the entry is put under a new audit key.
logToolUsage(kv, userContext, toolName) ==
    Put(kv, AuditKey(kv, userContext.tenant.id),
        [userId |-> userContext.user.id, tenantId |-> userContext.tenant.id,
         toolName |-> toolName])

\* The answer of a handler that denies access.
AccessDenied(toolName) ==
    [tool |-> toolName, isError |-> TRUE, text |-> "Access denied"]

\* The handler of get_user_info: it answers with the identity of
\* this.userContext whenever that field is set.
get_user_info(kv, userContext, toolName) ==
    IF userContext = NoRecord
    THEN [kv |-> kv,
          response |-> [tool |-> toolName, isError |-> TRUE,
                        text |-> "No user context available"]]
    ELSE [kv |-> logToolUsage(kv, userContext, toolName),
          response |-> [tool |-> toolName, isError |-> FALSE,
                        userId |-> userContext.user.id,
                        role |-> userContext.user.role,
                        tenantId |-> userContext.tenant.id]]

\* The handlers of add and calculate: canAccessTool of this.userContext
\* decides; calculate answers an error, without a log entry, for an expression
\* evaluateExpression throws on.
add_or_calculate(kv, userContext, toolName, expression) ==
    IF userContext = NoRecord \/ ~canAccessTool(userContext, toolName)
    THEN [kv |-> kv, response |-> AccessDenied(toolName)]
    ELSE IF toolName = "calculate" /\ expression = ""
    THEN [kv |-> kv,
          response |-> [tool |-> toolName, isError |-> TRUE,
                        text |-> "Error evaluating expression"]]
    ELSE [kv |-> logToolUsage(kv, userContext, toolName),
          response |-> [tool |-> toolName, isError |-> FALSE, text |-> "Result"]]

\* if (!this.getUserContext()) await this.init(userContext, authService)
Initialized(userContext) ==
    IF agent.userContext = NoRecord THEN userContext ELSE agent.userContext

\* UserMcpAgent.fetch for a request whose token validates: createUserContext
\* is called with the token's payload.  A request slot serves one request.
Agent_fetch(c, tokenPayload) ==
    /\ calls[c].pc = "idle"
    /\ calls' = [calls EXCEPT ![c] =
                    [IdleCall EXCEPT !.pc = "loading",
                                     !.tokenPayload = tokenPayload,
                                     !.userPc = "get", !.tenantPc = "get"]]
    /\ UNCHANGED <<OAUTH_KV, now>>
    /\ UNCHANGED <<graphVars, requestVars>>

\* UserMcpAgent.fetch for a request without a bearer token (401) or with a
\* token validateToken rejects (the AuthError is caught: 500).
Agent_rejected(c, token) ==
    /\ calls[c].pc = "idle"
    /\ calls' = [calls EXCEPT ![c] =
                    [IdleCall EXCEPT
                        !.pc = "responded",
                        !.response = [status |-> IF token = "none" THEN 401
                                                 ELSE 500]]]
    /\ UNCHANGED <<OAUTH_KV, now>>
    /\ UNCHANGED <<graphVars, requestVars>>

\* UserMcpAgent.fetch after createUserContext: the agent is initialized when
\* it has no context, and super.fetch runs the handler of the tool called.
Agent_handle(c, toolName, expression) ==
    /\ calls[c].pc = "returned"
    /\ LET kept == Initialized(Returned(c))
           done == IF toolName = "get_user_info"
                   THEN get_user_info(OAUTH_KV, kept, toolName)
                   ELSE add_or_calculate(OAUTH_KV, kept, toolName, expression)
       IN  /\ agent' = [userContext |-> kept, response |-> done.response]
           /\ OAUTH_KV' = done.kv
           /\ Respond(c, done.response)
    /\ UNCHANGED <<now, creates, http>>
    /\ UNCHANGED graphVars

\* The Durable Object is evicted from memory: the next request meets a new
\* instance.
Agent_evict ==
    /\ agent # NewAgent
    /\ agent' = NewAgent
    /\ UNCHANGED <<creates, http>>
    /\ UNCHANGED <<graphVars, identityVars>>

NextAgent ==
    \/ \E c \in CallIds, tokenPayload \in AdminTokenPayloads :
           Agent_fetch(c, tokenPayload)
    \/ \E c \in CallIds, token \in {"none", "invalid"} : Agent_rejected(c, token)
    \/ \E c \in CallIds : ContextStep(c)
    \/ \E c \in CallIds, toolName \in AgentTools, expression \in Expressions :
           Agent_handle(c, toolName, expression)
    \/ \E c \in CallIds, toolName \in AgentTools : Admin_deleteTool(c, toolName)
    \/ Agent_evict

SpecAgent == InitAdmin /\ [][NextAgent]_vars

-----------------------------------------------------------------------------
(* The specification of the graph tools. *)

\* No call of the access-control functions is followed in these runs.
NoAccessCall == [call |-> "none"]

Init ==
    /\ entity = EmptyBag
    /\ relation = EmptyBag
    /\ entity_observation = EmptyBag
    /\ res = NoCall
    /\ access = NoAccessCall
    /\ deleted = {}
    /\ fault = 0
    /\ InitIdentity
    /\ InitRequests

GraphNext(run) ==
    \/ \E u \in run.users, entities \in SeqsUpTo(EntityInputs(run), MaxBatch) :
           Tool_create_entities(u, entities)
    \/ \E u \in run.users, relations \in SeqsUpTo(run.relations, MaxBatch) :
           Tool_create_relations(u, relations)
    \/ \E u \in run.users, n \in Names,
          observations \in SeqsUpTo(run.texts, MaxBatch) :
           Tool_add_observations(u, n, observations)
    \/ \E u \in run.users, names \in SeqsUpTo(Names, MaxBatch) :
           Tool_delete_entities(u, names)
    \/ \E u \in run.users, relations \in SeqsUpTo(run.relations, MaxBatch) :
           Tool_delete_relations(u, relations)
    \/ \E u \in run.users, n \in Names,
          observations \in SeqsUpTo(run.texts, MaxBatch) :
           Tool_delete_observations(u, n, observations)
    \/ \E u \in run.users : Tool_read_graph(u)
    \/ \E u \in run.users, query \in run.queries : Tool_search_nodes(u, query)
    \/ \E u \in run.users, names \in SeqsUpTo(Names, MaxBatch) :
           Tool_open_nodes(u, names)

\* Two users of one tenant calling the graph tools.
Next == GraphNext(TenantRun)

Spec == Init /\ [][Next]_vars

\* One owner calling the graph tools with the full range of values.
NextOwner == GraphNext(OwnerRun)

SpecOwner == Init /\ [][NextOwner]_vars

\* One owner calling the graph tools with the full range of relations.
NextRelation == GraphNext(RelationRun)

SpecRelation == Init /\ [][NextRelation]_vars

\* The database fails the k-th statement of the next call.
Storage_fault(k) ==
    /\ fault = 0
    /\ fault' = k
    /\ UNCHANGED <<entity, relation, entity_observation, res, access, deleted>>
    /\ UNCHANGED <<identityVars, requestVars>>

\* One owner calling the graph tools on a database that may fail a statement.
NextFault ==
    \/ GraphNext(FaultRun)
    \/ \E k \in 1..MaxFault : Storage_fault(k)

SpecFault == Init /\ [][NextFault]_vars

\* Two createEntities calls of one owner, started at any time on an empty
\* graph.
SpecCreate == Init /\ [][NextCreate]_vars

-----------------------------------------------------------------------------
(* The specification of the access-control functions: a UserContext drawn    *)
(* from every role, tool configuration and permission set, and the calls of  *)
(* canAccessTool and hasPermission on it.                                    *)

ConfiguredTools == {"add", "read_graph"}

\* The tool names asked about: the configured ones and one with no entry.
AskedTools == ConfiguredTools \cup {"calculate"}

ToolPermissions == [enabled : BOOLEAN, allowedRoles : SUBSET Roles]

ToolConfigurations == UNION {[D -> ToolPermissions] : D \in SUBSET ConfiguredTools}

PermissionNames == {"read_data", "write_data"}

UserContexts ==
    [user : [role : Roles],
     tenant : [toolConfig : ToolConfigurations],
     permissions : SUBSET {"read_data"}]

InitAccess ==
    /\ entity = EmptyBag
    /\ relation = EmptyBag
    /\ entity_observation = EmptyBag
    /\ res = NoCall
    /\ deleted = {}
    /\ fault = 0
    /\ InitIdentity
    /\ InitRequests
    /\ access \in [call : {"none"}, userContext : UserContexts]

Call_canAccessTool(toolName) ==
    /\ access' = [call |-> "canAccessTool", userContext |-> access.userContext,
                  arg |-> toolName,
                  result |-> canAccessTool(access.userContext, toolName)]
    /\ UNCHANGED <<entity, relation, entity_observation, res, deleted, fault>>
    /\ UNCHANGED <<identityVars, requestVars>>

Call_hasPermission(permission) ==
    /\ access' = [call |-> "hasPermission", userContext |-> access.userContext,
                  arg |-> permission,
                  result |-> hasPermission(access.userContext, permission)]
    /\ UNCHANGED <<entity, relation, entity_observation, res, deleted, fault>>
    /\ UNCHANGED <<identityVars, requestVars>>

Call_validateToken(outcome) ==
    /\ access' = [call |-> "validateToken", userContext |-> access.userContext,
                  arg |-> outcome, result |-> validateToken(outcome)]
    /\ UNCHANGED <<entity, relation, entity_observation, res, deleted, fault>>
    /\ UNCHANGED <<identityVars, requestVars>>

NextAccess ==
    \/ \E toolName \in AskedTools : Call_canAccessTool(toolName)
    \/ \E permission \in PermissionNames : Call_hasPermission(permission)
    \/ \E outcome \in ProviderOutcomes : Call_validateToken(outcome)

SpecAccess == InitAccess /\ [][NextAccess]_vars

-----------------------------------------------------------------------------
(* Vocabulary of the properties. *)

ReadTools == {"read_graph", "search_nodes", "open_nodes"}

WriteTools == GraphTools \ ReadTools

\* The rows of a table that carry owner id o, and those that do not.
RowsOf(table, o) == BagFilter(table, LAMBDA r : r.user_id = o)

RowsNotOf(table, o) == BagFilter(table, LAMBDA r : r.user_id # o)

\* How often text x is stored under (o, n).
ObservationCount(table, o, n, x) ==
    CopiesIn([user_id |-> o, entity_name |-> n, observation |-> x], table)

\* An entity {name, entityType, observations} of a result shows only what the
\* tables hold under owner o.
EntityWithin(e, o, entity_table, observation_table) ==
    /\ BagIn([user_id |-> o, name |-> e.name, type |-> e.entityType], entity_table)
    /\ \A x \in BagToSet(e.observations) :
           CopiesIn(x, e.observations) <= ObservationCount(observation_table, o, e.name, x)

\* A relation {from, to, relationType} of a result, as the row of owner o.
RelationRow(o, r) ==
    [user_id |-> o, from |-> r.from, to |-> r.to, type |-> r.relationType]

\* What a step of a graph tool called with owner B may change and show.
IsolationStep ==
    res'.tool \in GraphTools =>
        LET B == res'.owner
            result == res'.result
        IN  /\ RowsNotOf(entity', B) = RowsNotOf(entity, B)
            /\ RowsNotOf(relation', B) = RowsNotOf(relation, B)
            /\ RowsNotOf(entity_observation', B) = RowsNotOf(entity_observation, B)
            /\ res'.tool \in {"read_graph", "open_nodes"} /\ result.success =>
                  \A e \in BagToSet(result.graph.entities) :
                      EntityWithin(e, B, entity', entity_observation')
            /\ res'.tool = "read_graph" =>
                  \A r \in BagToSet(result.graph.relations) :
                      CopiesIn(r, result.graph.relations)
                          <= CopiesIn(RelationRow(B, r), relation')
            /\ res'.tool = "search_nodes" =>
                  /\ result.entityNamesResult \sqsubseteq RowsOf(entity', B)
                  /\ result.entityTypesResult \sqsubseteq RowsOf(entity', B)
                  /\ result.entityObservationsResult
                         \sqsubseteq RowsOf(entity_observation', B)

\* C1: tenant isolation.  Every call made with owner B leaves the rows of
\* every other owner in the three tables as they were (so a row carries the id
\* of the owner whose call created it, and no delete of B removes a row of A),
\* and every row that read_graph, search_nodes or open_nodes returns to B is a
\* row stored under B.
C1_TenantIsolation == [][IsolationStep]_vars

\* Both users hold an entity of the same name, and u2's read_graph shows one.
C1_Witness ==
    /\ res.tool = "read_graph"
    /\ res.caller = "u2"
    /\ BagCardinality(res.result.graph.entities) = 1
    /\ \E n \in Names, t \in EntityTypes :
           /\ BagIn([user_id |-> "u1", name |-> n, type |-> t], entity)
           /\ BagIn([user_id |-> "u2", name |-> n, type |-> t], entity)

\* Whether the call issued a statement to the store: every read does, a
\* write does for a list that is not empty.
StoreAccessed(call) ==
    CASE call.tool = "create_entities" -> call.args.entities # <<>>
      [] call.tool = "delete_entities" -> call.args.entity_names # <<>>
      [] call.tool \in {"create_relations", "delete_relations"} ->
             call.args.relations # <<>>
      [] call.tool \in {"add_observations", "delete_observations"} ->
             call.args.observations # <<>>
      [] OTHER -> call.tool \in ReadTools

\* C4: authorization precedes store access.  A graph tool call reads or
\* writes the store only when canAccessTool passes for the caller's role, the
\* tenant's tool configuration and the tool name; a caller it denies is
\* answered PermissionDenied.
C4_AuthorizationPrecedesStore ==
    res.tool \in GraphTools /\ StoreAccessed(res) =>
        canAccessTool(ContextOf(res.caller), res.tool)

C3_CanAccessTool ==
    access.call = "canAccessTool" =>
        LET config == access.userContext.tenant.toolConfig
            role == access.userContext.user.role
            t == access.arg
        IN  /\ t \notin DOMAIN config => access.result = FALSE
            /\ t \in DOMAIN config /\ ~config[t].enabled => access.result = FALSE
            /\ t \in DOMAIN config /\ config[t].enabled =>
                  /\ access.result = (role \in config[t].allowedRoles \/ role = "admin")
                  /\ role = "admin" => access.result = TRUE
                  /\ role = "readonly" /\ config[t].allowedRoles = {"admin", "user"} =>
                        access.result = FALSE

\* A readonly user is denied an enabled tool allowed to admin and user.
C3_Witness ==
    /\ access.call = "canAccessTool"
    /\ access.userContext.user.role = "readonly"
    /\ access.arg \in DOMAIN access.userContext.tenant.toolConfig
    /\ access.userContext.tenant.toolConfig[access.arg]
           = [enabled |-> TRUE, allowedRoles |-> {"admin", "user"}]
    /\ access.result = FALSE

\* No two rows of entity carry the same (user_id, name).
EntityKeyUnique ==
    \A r \in BagToSet(entity) :
        /\ CopiesIn(r, entity) = 1
        /\ \A q \in BagToSet(entity) :
               q.user_id = r.user_id /\ q.name = r.name => q = r

\* The names of a create_entities batch that owner o already holds.
TakenNames(o, entities) ==
    {entities[i].name : i \in 1..Len(entities)}
        \cap {r.name : r \in BagToSet(RowsOf(entity, o))}

\* The rows of a table stored under (o, n).
ObservationRows(table, o, n) ==
    BagFilter(table, LAMBDA r : r.user_id = o /\ r.entity_name = n)

ConflictStep ==
    res'.tool = "create_entities" /\ TakenNames(res'.owner, res'.args.entities) # {} =>
        /\ res'.result.success = FALSE
        /\ \A n \in TakenNames(res'.owner, res'.args.entities) :
               /\ BagFilter(entity', LAMBDA r : r.user_id = res'.owner /\ r.name = n)
                      = BagFilter(entity, LAMBDA r : r.user_id = res'.owner /\ r.name = n)
               /\ ObservationRows(entity_observation', res'.owner, n)
                      = ObservationRows(entity_observation, res'.owner, n)

\* C2: uniqueness.  create_entities with an entity whose (owner, name) is
\* already stored returns a failure, and the stored entity row (its type) and
\* the observations stored under that name stay as they were; in every
\* reachable state entity holds at most one row per (owner, name).
C2_Uniqueness == []EntityKeyUnique /\ [][ConflictStep]_vars

\* A create_entities call failed on a name stored with another type, which
\* the row still carries, together with the observation it was created with.
C2_Witness ==
    /\ res.tool = "create_entities"
    /\ res.result.success = FALSE
    /\ Len(res.args.entities) = 1
    /\ \E i \in 1..Len(res.args.entities) :
          \E r \in BagToSet(RowsOf(entity, res.owner)) :
              /\ r.name = res.args.entities[i].name
              /\ r.type # res.args.entities[i].entityType
              /\ ObservationRows(entity_observation, res.owner, r.name) # EmptyBag
              /\ res.args.entities[i].observations = <<>>

DeleteEntitiesStep ==
    res'.tool = "delete_entities" =>
        LET o == res'.owner
            names == Range(res'.args.entity_names)
            graph == readGraph(DB', o).graph
        IN  /\ res'.result.success
            /\ relation' = relation
            /\ entity_observation' = entity_observation
            /\ entity' = BagFilter(entity,
                             LAMBDA r : ~(r.user_id = o /\ r.name \in names))
            /\ \A e \in BagToSet(graph.entities) : e.name \notin names
            /\ \A r \in BagToSet(RowsOf(relation, o)) :
                   CopiesIn([from |-> r.from, to |-> r.to, relationType |-> r.type],
                            graph.relations) >= CopiesIn(r, relation)

ContainsIgnoringCase(t, q) ==
    \E i \in 1..(Len(t) + 1) :
        /\ i + Len(q) - 1 <= Len(t)
        /\ SubSeq(Lower(t), i, i + Len(q) - 1) = Lower(q)

\* A query without the characters a LIKE pattern gives a meaning to.
PlainQuery(q) == \A i \in 1..Len(q) : q[i] \notin {"%", "_", "\\"}

\* An observation row stored under a name whose entity delete_entities removed.
Orphaned(r) == <<r.user_id, r.entity_name>> \in deleted

\* The observation texts an open_nodes or read_graph result shows under name n.
ShownUnder(graph, n) ==
    UNION {BagToSet(e.observations) : e \in {x \in BagToSet(graph.entities) : x.name = n}}

\* C7 as stated, for open_nodes: after delete_entities([n]), open_nodes of a
\* list with n returns the orphaned observations stored under n.
C7_OrphansOpened ==
    res.tool = "open_nodes" /\ res.result.success =>
        \A r \in BagToSet(RowsOf(entity_observation, res.owner)) :
            Orphaned(r) /\ r.entity_name \in Range(res.args.names) =>
                r.observation \in ShownUnder(res.result.graph, r.entity_name)

\* C7, amended: the observations left behind by delete_entities stay in the
\* table and search_nodes still returns them: every orphaned row whose text
\* contains the query (a query without %, _ and backslash), letter case
\* ignored, is in entityObservationsResult as often as it is stored.
\* open_nodes does not return them: it answers with entities only, so a listed
\* name without an entity row is left out together with its observations.
C7_OrphansSearchedNotOpened ==
    /\ res.tool = "search_nodes" /\ PlainQuery(res.args.query) =>
          \A r \in BagToSet(RowsOf(entity_observation, res.owner)) :
              Orphaned(r) /\ ContainsIgnoringCase(r.observation, res.args.query) =>
                  CopiesIn(r, res.result.entityObservationsResult)
                      = CopiesIn(r, entity_observation)
    /\ res.tool = "open_nodes" /\ res.result.success =>
          \A r \in BagToSet(RowsOf(entity_observation, res.owner)) :
              Orphaned(r) => ShownUnder(res.result.graph, r.entity_name) = {}

\* search_nodes returned an orphaned observation.
C7_Witness ==
    /\ res.tool = "search_nodes"
    /\ res.args.query = <<"a">>
    /\ \E r \in BagToSet(res.result.entityObservationsResult) :
           Orphaned(r) /\ r.observation = <<"a", "\\">>

\* What read_graph is to show owner o, said row by row.
GraphShown(graph, o) ==
    /\ BagCardinality(graph.entities) = BagCardinality(RowsOf(entity, o))
    /\ \A r \in BagToSet(RowsOf(entity, o)) :
           \E e \in BagToSet(graph.entities) :
               /\ e.name = r.name
               /\ e.entityType = r.type
               /\ \A x \in ObservationTexts :
                      CopiesIn(x, e.observations)
                          = ObservationCount(entity_observation, o, r.name, x)
               /\ BagToSet(e.observations) \subseteq ObservationTexts
    /\ BagCardinality(graph.relations) = BagCardinality(RowsOf(relation, o))
    /\ \A r \in BagToSet(RowsOf(relation, o)) :
           CopiesIn([from |-> r.from, to |-> r.to, relationType |-> r.type],
                    graph.relations) = CopiesIn(r, relation)

ReadGraphComplete ==
    res.tool = "read_graph" =>
        res.result.success /\ GraphShown(res.result.graph, res.owner)

PairwiseDistinctNames(entities) ==
    \A i, j \in 1..Len(entities) : entities[i].name = entities[j].name => i = j

RoundTripStep ==
    /\ res'.tool = "create_entities"
    /\ RowsOf(entity, res'.owner) = EmptyBag
    /\ RowsOf(relation, res'.owner) = EmptyBag
    /\ RowsOf(entity_observation, res'.owner) = EmptyBag
    /\ PairwiseDistinctNames(res'.args.entities)
    => /\ res'.result.success
       /\ readGraph(DB', res'.owner).graph
              = [entities |->
                    SetToBag({[name |-> res'.args.entities[i].name,
                               entityType |-> res'.args.entities[i].entityType,
                               observations |->
                                   SeqToBag(res'.args.entities[i].observations)]
                              : i \in 1..Len(res'.args.entities)}),
                 relations |-> EmptyBag]

\* C8: round trip.  On an owner whose three tables are empty, create_entities
\* of entities with pairwise distinct names followed by read_graph gives back
\* exactly those entities, each with its type and its listed observations, and
\* no relation.  In general read_graph shows every entity of the owner with
\* all observation rows stored under its name, and every relation row of the
\* owner.
C8_RoundTrip == []ReadGraphComplete /\ [][RoundTripStep]_vars

\* read_graph shows two entities, one with an observation and one without.
C8_Witness ==
    /\ res.tool = "read_graph"
    /\ BagCardinality(res.result.graph.entities) = 2
    /\ \E e \in BagToSet(res.result.graph.entities) : e.observations = EmptyBag
    /\ \E e \in BagToSet(res.result.graph.entities) : e.observations # EmptyBag

\* C9: search_nodes is a case-insensitive substring match and nothing else,
\* for every query: each of the three results holds exactly the owner's rows
\* whose name, type or observation text contains the query, letter case ignored.
C9_SearchIsSubstring ==
    res.tool = "search_nodes" =>
        /\ res.result.entityNamesResult
               = BagFilter(RowsOf(entity, res.owner),
                     LAMBDA r : ContainsIgnoringCase(r.name, res.args.query))
        /\ res.result.entityTypesResult
               = BagFilter(RowsOf(entity, res.owner),
                     LAMBDA r : ContainsIgnoringCase(r.type, res.args.query))
        /\ res.result.entityObservationsResult
               = BagFilter(RowsOf(entity_observation, res.owner),
                     LAMBDA r : ContainsIgnoringCase(r.observation, res.args.query))

\* C10: open_nodes never fails and returns exactly the owner's entities whose
\* name is listed, each with all observation rows stored under its name, for
\* every list of names, the empty list and lists of absent names included.
C10_OpenNodesNeverFails ==
    res.tool = "open_nodes" =>
        /\ res.result.success
        /\ BagCardinality(res.result.graph.entities)
               = BagCardinality(BagFilter(RowsOf(entity, res.owner),
                     LAMBDA r : r.name \in Range(res.args.names)))
        /\ \A e \in BagToSet(res.result.graph.entities) :
               /\ e.name \in Range(res.args.names)
               /\ BagIn([user_id |-> res.owner, name |-> e.name,
                         type |-> e.entityType], entity)
               /\ \A x \in ObservationTexts :
                      CopiesIn(x, e.observations)
                          = ObservationCount(entity_observation, res.owner, e.name, x)

-----------------------------------------------------------------------------
(* Failures of the storage.                                                  *)

\* C11: every graph operation reports a failed storage statement: when a
\* statement the operation issued raised, an observation insert issued on
\* behalf of create_entities or add_observations included, the result of the
\* operation has success = false.
C11_FailureReported ==
    res.tool \in GraphTools /\ res.raised => res.result.success = FALSE

\* Whether the answer of a tool shows the failure of the operation.
ShowsFailure(payload) ==
    /\ "success" \in DOMAIN payload
    /\ payload.success = FALSE

\* C12: when the store operation of a graph tool returns a failure, the
\* answer of the tool carries success:false and the error; no tool answers a
\* failed operation with a payload that omits the failure.
C12_FailureShown ==
    res.tool \in GraphTools /\ ~res.result.success => ShowsFailure(res.payload)

-----------------------------------------------------------------------------
(* Batches. *)

\* Whether the i-th entity of a batch meets a stored (owner, name): one stored
\* before the call, or one the batch has inserted before it.
Conflicts(o, entities, i) ==
    \/ \E r \in BagToSet(RowsOf(entity, o)) : r.name = entities[i].name
    \/ \E j \in 1..(i - 1) : entities[j].name = entities[i].name

\* The first entity of the batch that conflicts.
FirstConflict(o, entities) ==
    CHOOSE k \in 1..Len(entities) :
        /\ Conflicts(o, entities, k)
        /\ \A j \in 1..(k - 1) : ~Conflicts(o, entities, j)

\* The entity rows of the entities of a list.
EntityRowsOf(o, entities) ==
    SeqToBag([i \in 1..Len(entities) |->
                 [user_id |-> o, name |-> entities[i].name,
                  type |-> entities[i].entityType]])

\* The observation rows of the entities of a list.
RECURSIVE ObservationRowsOf(_, _)
ObservationRowsOf(o, entities) ==
    IF entities = <<>> THEN EmptyBag
    ELSE SeqToBag([i \in 1..Len(Head(entities).observations) |->
                      [user_id |-> o, entity_name |-> Head(entities).name,
                       observation |-> Head(entities).observations[i]]])
             (+) ObservationRowsOf(o, Tail(entities))

PartialCreateStep ==
    /\ res'.tool = "create_entities"
    /\ \E i \in 1..Len(res'.args.entities) :
           Conflicts(res'.owner, res'.args.entities, i)
    => LET o == res'.owner
           k == FirstConflict(o, res'.args.entities)
           before == SubSeq(res'.args.entities, 1, k - 1)
       IN  /\ res'.result.success = FALSE
           /\ entity' = entity (+) EntityRowsOf(o, before)
           /\ entity_observation'
                  = entity_observation (+) ObservationRowsOf(o, before)
           /\ relation' = relation

\* C13: create_entities is not batch-atomic.  When the k-th entity of a batch
\* conflicts with a stored (owner, name), the call returns its failure and
\* entities 1..k-1 of the batch and all their observations stay committed;
\* nothing else is written.
C13_PartialCommit == [][PartialCreateStep]_vars

\* A batch of two failed on its second entity; the first is stored with the
\* observation it listed.
C13_Witness ==
    /\ res.tool = "create_entities"
    /\ res.result.success = FALSE
    /\ Len(res.args.entities) = 2
    /\ res.args.entities[1].name # res.args.entities[2].name
    /\ res.args.entities[1].observations # <<>>
    /\ EntityRowsOf(res.owner, SubSeq(res.args.entities, 1, 1)) \sqsubseteq entity
    /\ ObservationRowsOf(res.owner, SubSeq(res.args.entities, 1, 1))
           = entity_observation
    /\ \E r \in BagToSet(entity) :
           /\ r.name = res.args.entities[2].name
           /\ r.type # res.args.entities[2].entityType

-----------------------------------------------------------------------------
(* Relations and observations. *)

\* The relation rows of the relations of a list.
RelationRowsOf(o, relations) ==
    SeqToBag([i \in 1..Len(relations) |-> RelationRow(o, relations[i])])

CreateRelationsStep ==
    res'.tool = "create_relations" =>
        LET o == res'.owner
            graph == readGraph(DB', o).graph
        IN  /\ res'.result.success
            /\ relation' = relation (+) RelationRowsOf(o, res'.args.relations)
            /\ entity' = entity
            /\ entity_observation' = entity_observation
            /\ BagCardinality(graph.relations)
                   = BagCardinality(RowsOf(relation', o))
            /\ \A r \in BagToSet(RowsOf(relation', o)) :
                   CopiesIn([from |-> r.from, to |-> r.to, relationType |-> r.type],
                            graph.relations) = CopiesIn(r, relation')

\* C14: no referential enforcement and no uniqueness for relations.
\* create_relations succeeds for every list, whether or not from and to name
\* stored entities, and adds one relation row per element of the list: a
\* relation already stored, or listed twice, is stored again, and read_graph
\* lists it once per row.
C14_RelationsUnchecked == [][CreateRelationsStep]_vars

\* A relation between names no entity carries is stored twice.
C14_Witness ==
    /\ res.tool = "create_relations"
    /\ res.result.success
    /\ entity = EmptyBag
    /\ res.args.relations # <<>>
    /\ CopiesIn(RelationRow(res.owner, res.args.relations[1]), relation) = 2
    /\ CopiesIn(res.args.relations[1], readGraph(DB, res.owner).graph.relations) = 2

\* The observation rows a list of texts makes under (o, n).
TextRowsOf(o, n, observations) ==
    SeqToBag([i \in 1..Len(observations) |->
                 [user_id |-> o, entity_name |-> n, observation |-> observations[i]]])

AddObservationsStep ==
    res'.tool = "add_observations" =>
        /\ res'.result.success
        /\ entity_observation'
               = entity_observation
                     (+) TextRowsOf(res'.owner, res'.args.entity_name,
                                    res'.args.observations)
        /\ entity' = entity
        /\ relation' = relation

\* C15: add_observations appends one observation row per listed text under
\* (owner, entity name) and succeeds whether or not an entity of that name is
\* stored; it edits and removes no stored observation row and creates or
\* changes no entity or relation row.
C15_ObservationsAppended == [][AddObservationsStep]_vars

\* Observations were added under a name no entity carries, one text twice.
C15_Witness ==
    /\ res.tool = "add_observations"
    /\ res.result.success
    /\ res.args.observations # <<>>
    /\ ~HasEntity(DB, res.owner, res.args.entity_name)
    /\ ObservationCount(entity_observation, res.owner, res.args.entity_name,
                        res.args.observations[1]) = 2

DeleteObservationsStep ==
    res'.tool = "delete_observations" =>
        /\ res'.result.success
        /\ entity_observation'
               = BagFilter(entity_observation,
                     LAMBDA r : ~(/\ r.user_id = res'.owner
                                  /\ r.entity_name = res'.args.entity_name
                                  /\ r.observation \in Range(res'.args.observations)))
        /\ entity' = entity
        /\ relation' = relation

\* C16: delete_observations removes every row of the owner whose entity name
\* and text are the given name and a listed text, duplicates of the text
\* included, and leaves every other observation row and all entity and relation
\* rows as they were; a text without a row is a no-op and not an error.
C16_ObservationsDeleted == [][DeleteObservationsStep]_vars

\* After a delete of one text under a name, the other text under the name and
\* the same text under the other name are still stored.
C16_Witness ==
    /\ res.tool = "delete_observations"
    /\ res.result.success
    /\ Len(res.args.observations) = 1
    /\ ObservationCount(entity_observation, res.owner, res.args.entity_name,
                        res.args.observations[1]) = 0
    /\ \E r \in BagToSet(entity_observation) :
           /\ r.entity_name = res.args.entity_name
           /\ r.observation # res.args.observations[1]
    /\ \E r \in BagToSet(entity_observation) :
           /\ r.entity_name # res.args.entity_name
           /\ r.observation = res.args.observations[1]

\* Whether relation row r equals an element of the list on from, to and type.
Listed(r, relations) ==
    \E i \in 1..Len(relations) :
        /\ r.from = relations[i].from
        /\ r.to = relations[i].to
        /\ r.type = relations[i].relationType

DeleteRelationsStep ==
    res'.tool = "delete_relations" =>
        /\ res'.result.success
        /\ relation'
               = BagFilter(relation,
                     LAMBDA r : ~(r.user_id = res'.owner
                                  /\ Listed(r, res'.args.relations)))
        /\ entity' = entity
        /\ entity_observation' = entity_observation

\* C17: delete_relations removes exactly the owner's relation rows that equal
\* an element of the list on from, to and relationType; a row that differs in
\* one field stays, and an element without a row is a no-op and not an error.
C17_RelationsDeleted == [][DeleteRelationsStep]_vars

\* After the delete of one relation, rows that differ from it in the from
\* name only, in the to name only and in the type only are still stored.
C17_Witness ==
    /\ res.tool = "delete_relations"
    /\ res.result.success
    /\ Len(res.args.relations) = 1
    /\ LET d == res.args.relations[1]
       IN  /\ \E r \in BagToSet(relation) :
                  r.from # d.from /\ r.to = d.to /\ r.type = d.relationType
           /\ \E r \in BagToSet(relation) :
                  r.from = d.from /\ r.to # d.to /\ r.type = d.relationType
           /\ \E r \in BagToSet(relation) :
                  r.from = d.from /\ r.to = d.to /\ r.type # d.relationType

-----------------------------------------------------------------------------
(* Credentials. *)

\* C18: validateToken returns a payload whose userId is the provider's userId
\* and whose tenantId is the tenant id the provider supplied, or the userId
\* when it supplied none (or an empty one), or it fails with AuthError; a
\* provider rejection, a provider exception and a response without userId
\* yield AuthError, never another exception and never a payload.
C18_ValidateToken ==
    access.call = "validateToken" =>
        LET outcome == access.arg
            result == access.result
        IN  /\ result.kind \in {"payload", "AuthError"}
            /\ result.kind = "payload" =>
                  /\ outcome.kind = "tokenData"
                  /\ result.payload.userId = outcome.userId
                  /\ result.payload.tenantId
                         = IF outcome.tenantId \in {Undefined, ""}
                           THEN outcome.userId ELSE outcome.tenantId
            /\ outcome.kind \in {"throws", "null"} => result.kind = "AuthError"
            /\ outcome.kind = "tokenData" /\ outcome.userId \in {Undefined, ""} =>
                  result.kind = "AuthError"

\* The provider raised and the call failed with AuthError.
C18_Witness ==
    /\ access.call = "validateToken"
    /\ access.arg.kind = "throws"
    /\ access.result.kind = "AuthError"

-----------------------------------------------------------------------------
(* The user context. *)

\* Records equal in every field but lastActiveAt.
SameButLastActive(a, b) ==
    /\ DOMAIN a = DOMAIN b
    /\ \A f \in DOMAIN a \ {"lastActiveAt"} : a[f] = b[f]

\* A user record that is the default of an id: role user, the baseline
\* permissions, active.
IsDefaultUser(u, userId) ==
    SameButLastActive(u, DefaultUser(userId, u.createdAt))

\* A tenant record that is the default of an id.
IsDefaultTenant(t, tenantId) == t = DefaultTenant(tenantId, t.createdAt)

\* What get answers for a key of the store.
Stored(key) == IF key \in DOMAIN OAUTH_KV THEN OAUTH_KV[key] ELSE NoRecord

\* The keys whose value a step writes or changes.
Written ==
    {k \in DOMAIN OAUTH_KV' : k \notin DOMAIN OAUTH_KV \/ OAUTH_KV'[k] # OAUTH_KV[k]}

\* A returned call gave the records its gets answered, the user with a new
\* lastActiveAt and nothing else changed, and defaults where they answered none.
ContextAsStored ==
    \A c \in CallIds :
        calls[c].pc = "returned" =>
            LET call == calls[c]
            IN  /\ IF call.userData = NoRecord
                   THEN IsDefaultUser(call.user, call.tokenPayload.userId)
                   ELSE SameButLastActive(call.user, call.userData)
                /\ IF call.tenantData = NoRecord
                   THEN IsDefaultTenant(call.tenant, call.tokenPayload.tenantId)
                   ELSE call.tenant = call.tenantData

\* A step of call c: its gets answer what is stored, and what it writes is a
\* default for a key whose get answered none, or the user it loaded with a new
\* lastActiveAt; a tenant whose get answered a record is not written.
ContextWrites(c) ==
    LET call == calls[c]
        userKey == UserKey(call.tokenPayload.userId)
        tenantKey == TenantKey(call.tokenPayload.tenantId)
    IN  /\ call.userPc = "get" /\ calls'[c].userPc # "get" =>
              /\ calls'[c].userData = Stored(userKey)
              /\ OAUTH_KV' = OAUTH_KV
        /\ call.tenantPc = "get" /\ calls'[c].tenantPc # "get" =>
              /\ calls'[c].tenantData = Stored(tenantKey)
              /\ OAUTH_KV' = OAUTH_KV
        /\ \A k \in Written :
              \/ /\ k = tenantKey
                 /\ call.tenantData = NoRecord
                 /\ IsDefaultTenant(OAUTH_KV'[k], call.tokenPayload.tenantId)
              \/ /\ k = userKey
                 /\ IF call.userData = NoRecord
                    THEN IsDefaultUser(OAUTH_KV'[k], call.tokenPayload.userId)
                    ELSE SameButLastActive(OAUTH_KV'[k], call.userData)

ContextWriteStep ==
    \A c \in CallIds :
        calls[c].pc \in {"loading", "touching"} /\ calls'[c] # calls[c] =>
            ContextWrites(c)

\* C19: createUserContext creates a default user (role user, baseline
\* permissions, active) only when the get for the user id answered no record,
\* and a default tenant only when the get for the tenant id answered none; a
\* record that exists is returned as stored, the only field the call changes
\* in the stored user is lastActiveAt, and a stored tenant is not written.
C19_ContextAsStored == []ContextAsStored /\ [][ContextWriteStep]_vars

\* A call returned a user stored by an earlier call, with a later
\* lastActiveAt, and the tenant a registration stored, which is no default.
C19_Witness ==
    \E c \in CallIds :
        /\ calls[c].pc = "returned"
        /\ calls[c].userData # NoRecord
        /\ calls[c].user.lastActiveAt # calls[c].userData.lastActiveAt
        /\ calls[c].tenantData # NoRecord
        /\ calls[c].tenant = Stored(TenantKey(calls[c].tokenPayload.tenantId))
        /\ "calculate" \in DOMAIN calls[c].tenant.toolConfig

-----------------------------------------------------------------------------
(* Two first requests of one new identity. *)

\* Contexts equal but for the timestamps createdAt and lastActiveAt.
SameButTimestamps(a, b) ==
    /\ [a.user EXCEPT !.createdAt = 0, !.lastActiveAt = 0]
           = [b.user EXCEPT !.createdAt = 0, !.lastActiveAt = 0]
    /\ [a.tenant EXCEPT !.createdAt = 0] = [b.tenant EXCEPT !.createdAt = 0]
    /\ a.permissions = b.permissions

\* Both calls have returned.
BothReturned == \A c \in CallIds : calls[c].pc = "returned"

\* Both calls gave the default user and tenant of the identity, and the store
\* holds one user record and one tenant record, the defaults.
BootstrapIdempotent ==
    BothReturned =>
        \A c \in CallIds :
            LET tokenPayload == calls[c].tokenPayload
                userKey == UserKey(tokenPayload.userId)
                tenantKey == TenantKey(tokenPayload.tenantId)
            IN  /\ IsDefaultUser(Returned(c).user, tokenPayload.userId)
                /\ IsDefaultTenant(Returned(c).tenant, tokenPayload.tenantId)
                /\ \A d \in CallIds : SameButTimestamps(Returned(c), Returned(d))
                /\ DOMAIN OAUTH_KV = {userKey, tenantKey}
                /\ IsDefaultUser(OAUTH_KV[userKey], tokenPayload.userId)
                /\ IsDefaultTenant(OAUTH_KV[tenantKey], tokenPayload.tenantId)

\* C20: for two concurrent first createUserContext calls of one new identity,
\* under every interleaving of their reads and writes of the store, both calls
\* return the same default user and tenant, timestamps aside, and the store
\* ends with one user record and one tenant record, each the default.
C20_BootstrapIdempotent == []BootstrapIdempotent

\* Both calls found nothing stored and wrote their defaults at different
\* times, so that the second write replaced the first.
C20_Witness ==
    /\ BothReturned
    /\ \A c \in CallIds : calls[c].userData = NoRecord /\ calls[c].tenantData = NoRecord
    /\ calls["c1"].user.createdAt # calls["c2"].user.createdAt
    /\ calls["c1"].tenant.createdAt # calls["c2"].tenant.createdAt

-----------------------------------------------------------------------------
(* Concurrent creates. *)

\* Both calls were made by one owner with one entity each, of one name, and
\* both have returned.
SameEntityRace ==
    /\ \A k \in CreateIds : creates[k].pc = "returned" /\ Len(creates[k].args) = 1
    /\ creates["k1"].userId = creates["k2"].userId
    /\ creates["k1"].args[1].name = creates["k2"].args[1].name

\* Call k succeeded, the other call reports the raised primary key, and the
\* graph holds the entity as call k listed it: one row, of its type, with its
\* observations and no others.
Won(k, other) ==
    LET e == creates[k].args[1]
        userId == creates[k].userId
    IN  /\ creates[k].result = Ok
        /\ creates[other].result = Failure("entity_pkey")
        /\ BagFilter(entity, LAMBDA r : r.user_id = userId /\ r.name = e.name)
               = SetToBag({[user_id |-> userId, name |-> e.name,
                            type |-> e.entityType]})
        /\ BagFilter(entity_observation,
                     LAMBDA r : r.user_id = userId /\ r.entity_name = e.name)
               = SeqToBag([i \in 1..Len(e.observations) |->
                              [user_id |-> userId, entity_name |-> e.name,
                               observation |-> e.observations[i]]])

OneWinner == SameEntityRace => (Won("k1", "k2") \/ Won("k2", "k1"))

\* C21: of two concurrent createEntities calls that each create the same
\* single (owner, name), under every interleaving exactly one succeeds and
\* the other reports the conflict of the primary key, and afterwards there is
\* one entity row for the pair, with the winner's type and only the winner's
\* observations.
C21_OneWinner == []OneWinner

\* The two calls listed different types and different observations, and the
\* call that started second won.
C21_Witness ==
    /\ SameEntityRace
    /\ creates["k1"].args[1].entityType # creates["k2"].args[1].entityType
    /\ creates["k1"].args[1].observations # <<>>
    /\ creates["k2"].args[1].observations # <<>>
    /\ creates["k1"].args[1].observations # creates["k2"].args[1].observations
    /\ Won("k2", "k1")

-----------------------------------------------------------------------------
(* Administrative edits of a tenant. *)

\* Call c has answered 200 to an edit of one tool.
ToolEdited(c) ==
    /\ calls[c].pc = "responded"
    /\ calls[c].response.route \in {"PUT /tools", "DELETE /tools"}
    /\ calls[c].response.status = 200

\* The handler of call c stores the tenant: every tool but the one the request
\* names is stored as the request's middleware loaded it, whatever the store
\* holds for the tenant by then.
TenantWriteStep ==
    \A c \in CallIds :
        calls[c].pc = "returned" /\ ToolEdited(c)' =>
            LET loadedConfig == calls[c].tenant.toolConfig
                tool == calls'[c].response.tool
                storedConfig == OAUTH_KV'[TenantKey(calls[c].tenant.id)].toolConfig
            IN  /\ DOMAIN storedConfig \ {tool} = DOMAIN loadedConfig \ {tool}
                /\ \A n \in DOMAIN loadedConfig \ {tool} :
                       storedConfig[n] = loadedConfig[n]

\* C22: an administrative edit of a tenant stores the whole record as the
\* request read it, with no check of what is stored by then, so that of two
\* overlapping requests that edit different tools of one tenant the later
\* write keeps its own edit and undoes the other's.
C22_LastWriterWins == [][TenantWriteStep]_vars

\* Two requests have set the entries of different tools and both were
\* answered 200; the stored tenant carries the entry of one and not the entry
\* of the other.
C22_Witness ==
    \E c, d \in CallIds :
        /\ c # d
        /\ ToolEdited(c) /\ calls[c].response.route = "PUT /tools"
        /\ ToolEdited(d) /\ calls[d].response.route = "PUT /tools"
        /\ calls[c].response.tool # calls[d].response.tool
        /\ calls[c].tenant.id = calls[d].tenant.id
        /\ LET storedConfig == OAUTH_KV[TenantKey(calls[c].tenant.id)].toolConfig
               own(x) == /\ calls[x].response.tool \in DOMAIN storedConfig
                         /\ storedConfig[calls[x].response.tool]
                                = calls[x].response.config
           IN  own(d) /\ ~own(c)

-----------------------------------------------------------------------------
(* Logins. *)

\* The last answer of /approve was an approval, of a login or of the
\* registration it made.
Approved == http # NoRecord /\ http.route = "approve" /\ http.approved

\* The credentials /approve last approved still validate.
LoginKept ==
    Approved => validateCredentials(OAUTH_KV, http.email, http.password) # NoRecord

\* C23: a registered user can keep logging in: once /approve has accepted an
\* email and password, validateCredentials accepts them after any sequence of
\* updateLastActive calls and administrative updates of the user, no operation
\* removing or altering the passwordHash stored under user:<email>.
C23_LoginKept == []LoginKept

-----------------------------------------------------------------------------
(* The agent's tools. *)

\* Call c was answered by a tool handler of the agent.
ToolAnswered(c) ==
    calls[c].pc = "responded" /\ "isError" \in DOMAIN calls[c].response

\* The answer call c got is the one its own context gives: get_user_info
\* names the request's user, role and tenant, and add and calculate are denied
\* exactly when canAccessTool of the request's context is false.
OwnIdentityAnswered(c) ==
    LET response == calls[c].response
        own == Returned(c)
    IN  IF response.tool = "get_user_info"
        THEN /\ ~response.isError
             /\ response.userId = own.user.id
             /\ response.role = own.user.role
             /\ response.tenantId = own.tenant.id
        ELSE (response = AccessDenied(response.tool))
                 <=> ~canAccessTool(own, response.tool)

\* The audit entries the handler of call c writes name the request's user and
\* tenant.
OwnIdentityLogged(c) ==
    \A k \in AuditKeys(OAUTH_KV') \ AuditKeys(OAUTH_KV) :
        /\ OAUTH_KV'[k].userId = calls[c].user.id
        /\ OAUTH_KV'[k].tenantId = calls[c].tenant.id

PerRequestIdentity == \A c \in CallIds : ToolAnswered(c) => OwnIdentityAnswered(c)

PerRequestAuditStep ==
    \A c \in CallIds :
        calls[c].pc = "returned" /\ ToolAnswered(c)' => OwnIdentityLogged(c)

\* C24: for every request UserMcpAgent.fetch handles, the UserContext the tool
\* handlers use (canAccessTool for add and calculate, the identity
\* get_user_info returns, the audit log entry) is the one materialized from
\* that request's own credential, for any sequence of requests.
C24_PerRequestIdentity == []PerRequestIdentity /\ [][PerRequestAuditStep]_vars

\* A handler whose context, this.userContext, does not pass canAccessTool for
\* the tool answers that access is denied and writes no audit entry.
ToolGatedStep ==
    \A c \in CallIds :
        /\ calls[c].pc = "returned"
        /\ ToolAnswered(c)'
        /\ ~canAccessTool(agent'.userContext, calls'[c].response.tool)
        => /\ calls'[c].response = AccessDenied(calls'[c].response.tool)
           /\ AuditKeys(OAUTH_KV') = AuditKeys(OAUTH_KV)

\* C27: every tool handler of the multi-tenant agent (add, calculate,
\* get_user_info) is gated by the tenant's tool configuration: when
\* canAccessTool(ctx, tool) is false the handler returns an access-denied
\* error, returns no data and writes no audit log entry.
C27_ToolsGated == [][ToolGatedStep]_vars

-----------------------------------------------------------------------------
(* Users as registered and as loaded. *)

\* loadUser of call c goes on with the role, permissions and isActive of the
\* record registration and PUT /users/:userId store for the user id.
LoadsStoredRoleStep ==
    \A c \in CallIds :
        /\ calls[c].pc = "loading"
        /\ calls[c].userPc = "get"
        /\ calls'[c].userPc # "get"
        /\ UserByIdKey(calls[c].tokenPayload.userId) \in DOMAIN OAUTH_KV
        => LET stored == OAUTH_KV[UserByIdKey(calls[c].tokenPayload.userId)]
               user == calls'[c].user
           IN  /\ user.role = stored.role
               /\ user.permissions = stored.permissions
               /\ user.isActive = stored.isActive

\* C25: role changes take effect: the role, permissions and isActive of the
\* UserContext createUserContext materializes for a user id are the values
\* most recently stored for that user by registration or by an administrative
\* PUT /users/:userId, loadUser reading the record those operations write.
C25_RoleTakesEffect == [][LoadsStoredRoleStep]_vars

-----------------------------------------------------------------------------
(* Lazy defaults and administrative edits. *)

\* Call d found no tenant stored, has finished createUserContext and has made
\* no administrative edit.
LoadedLazily(d) ==
    /\ calls[d].tenantData = NoRecord
    /\ \/ calls[d].pc = "returned"
       \/ calls[d].pc = "responded" /\ calls[d].response.status = 403

\* The entry a PUT /tools request of call c set is the one stored.
EditStored(c) ==
    LET storedConfig == OAUTH_KV[TenantKey(calls[c].tenant.id)].toolConfig
        tool == calls[c].response.tool
    IN  tool \in DOMAIN storedConfig /\ storedConfig[tool] = calls[c].response.config

EditSurvivesDefault ==
    \A c, d \in CallIds :
        /\ c # d
        /\ ToolEdited(c) /\ calls[c].response.route = "PUT /tools"
        /\ LoadedLazily(d)
        /\ calls[d].tenant.id = calls[c].tenant.id
        => EditStored(c)

\* C26: lazy default creation never overwrites an existing tenant record:
\* under every interleaving of a first-time loadTenant (read absent, then write
\* the default) with a request that creates and then administratively edits
\* the same tenant, the tenant stored after both have finished still contains
\* the administrative edit.
C26_EditSurvivesDefault == []EditSurvivesDefault

-----------------------------------------------------------------------------
(* Administrative updates of users. *)

\* Call c has answered a PUT /users/:userId request.
UserPutAnswered(c) ==
    /\ calls[c].pc = "responded"
    /\ "route" \in DOMAIN calls[c].response
    /\ calls[c].response.route = "PUT /users"

\* The handler of PUT /users/:userId answers: after a 200 the stored role of
\* the target is one of admin, user, readonly, and is admin when the target is
\* the caller; a request answered 400 or 404 has written nothing.
UserPutStep ==
    \A c \in CallIds :
        calls[c].pc \in {"returned", "saving"} /\ UserPutAnswered(c)' =>
            IF calls'[c].response.status = 200
            THEN LET stored == OAUTH_KV'[UserByIdKey(calls'[c].response.userId)]
                 IN  /\ stored.role \in Roles
                     /\ stored.id = calls[c].user.id => stored.role = "admin"
            ELSE OAUTH_KV' = OAUTH_KV

\* A request requireAdmin answers 403 has written nothing in the handler.
ForbiddenStep ==
    \A c \in CallIds :
        /\ calls[c].pc = "returned"
        /\ calls'[c].pc = "responded"
        /\ calls'[c].response.status = 403
        => OAUTH_KV' = OAUTH_KV

\* C29: administrative user updates keep roles well-formed and cannot
\* self-demote: after any PUT /users/:userId request, for every request body,
\* the stored role of the target is one of admin, user, readonly, and when the
\* target is the calling admin its stored role is still admin; a request
\* rejected with 400, 403 or 404 writes nothing.
C29_RolesWellFormed == [][UserPutStep /\ ForbiddenStep]_vars

-----------------------------------------------------------------------------
(* Entities created anew. *)

\* The entities of a graph named n all carry the observations O.
ShownWith(graph, n, O) ==
    /\ \E e \in BagToSet(graph.entities) : e.name = n
    /\ \A e \in BagToSet(graph.entities) : e.name = n => e.observations = SeqToBag(O)

\* A successful create_entities of one entity: readGraph and openNodes of its
\* name then show the entity with the observations the call listed.
CreatedExactStep ==
    /\ res'.tool = "create_entities"
    /\ res'.result.success
    /\ Len(res'.args.entities) = 1
    => LET e == res'.args.entities[1]
       IN  /\ ShownWith(readGraph(DB', res'.owner).graph, e.name, e.observations)
           /\ ShownWith(openNodes(DB', res'.owner, <<e.name>>).graph,
                        e.name, e.observations)

\* C28: an entity is created with exactly the observations listed in its
\* create call: for any sequence of operations, immediately after a successful
\* createEntities([{name n, observations O}]), readGraph and openNodes([n])
\* show n with exactly O, also when n was created, given observations and
\* deleted earlier, or when add_observations(n, ...) ran while n did not exist.
C28_CreatedWithListed == [][CreatedExactStep]_vars

-----------------------------------------------------------------------------
(* The user and the tenant of a context. *)

\* The user of a returned context belongs to the tenant it is paired with.
UserOfTenant ==
    \A c \in CallIds :
        calls[c].pc = "returned" => Returned(c).user.tenantId = Returned(c).tenant.id

\* C30: in every UserContext createUserContext returns, the user belongs to
\* the tenant it is paired with: ctx.user.tenantId equals ctx.tenant.id, for
\* every token payload, that of a first-seen user whose token carries a
\* tenantId different from its userId included.
C30_UserOfTenant == []UserOfTenant

====
